---- MODULE Spec2Model ----
(***************************************************************************)
(* A model of the dual-key anonymizer of                                   *)
(* src/BitwiseDualKeyAnonymizer/anonymizer.py: keystream derivation, the   *)
(* per-byte transform, the base-36 codec, the typed serialisation and the  *)
(* token framing, with the anonymizer instance as the state.               *)
(*                                                                         *)
(* Representation of Python data:                                          *)
(*   bytes      a sequence of integers in 0..255                           *)
(*   str        a sequence of Unicode code points                          *)
(*   int (big)  the base-36 codec works on integers far beyond 32 bits, so *)
(*              such an integer is its big-endian base-256 digit sequence  *)
(*              without leading zero digits (<<>> is 0)                    *)
(*   object     a record [type, val] with val a sequence of integers       *)
(*   raise      a result record whose exc field names the exception class  *)
(***************************************************************************)
EXTENDS Integers, Sequences, FiniteSets, TLC

(***************************************************************************)
(* Bounds of the model.                                                    *)
(***************************************************************************)
\* the per-byte calls take positions 0..MaxPosition (and the positions
\* around the keystream length)
MaxPosition == 7
\* anonymized strings have at most MaxTextLen characters
MaxTextLen == 1
\* anonymized integers are -MaxInt..MaxInt
MaxInt == 1
\* the payloads of hand-made tokens have at most MaxPayloadLen characters
MaxPayloadLen == 2
\* shuffled tables have at most MaxColumns columns and MaxRows rows, and
\* the shifts of their keys are -MaxShift..MaxShift
MaxColumns == 3
MaxRows == 3
MaxShift == 4
\* the cells of a text column have at most MaxCellLen characters
MaxCellLen == 2
MaxCodecLen == 3
MaxSeqLen == 65
\* a byte is transformed again at most MaxPeriods key-sequence lengths after
\* its first position
MaxPeriods == 2

(***************************************************************************)
(* Program constants.                                                      *)
(***************************************************************************)
\* default of the parameter length of _generate_sequence
DefaultLength == 2048
\* digest sizes of hashlib.sha256 and hashlib.sha512
Sha256DigestSize == 32
Sha512DigestSize == 64
\* version = b"\x01"
VersionByte == 1
\* the readable characters of _text_transform
CHAR_RANGE == 94
CHAR_START == 33

(***************************************************************************)
(* Bit operations on bytes (Python's ^, &, |, <<, >> on values 0..255).    *)
(***************************************************************************)
Bit(x, i) == (x \div (2 ^ i)) % 2

\* a ^ b for a, b in 0..255
Xor(a, b) ==
    ((Bit(a, 0) + Bit(b, 0)) % 2)
  + 2 * ((Bit(a, 1) + Bit(b, 1)) % 2)
  + 4 * ((Bit(a, 2) + Bit(b, 2)) % 2)
  + 8 * ((Bit(a, 3) + Bit(b, 3)) % 2)
  + 16 * ((Bit(a, 4) + Bit(b, 4)) % 2)
  + 32 * ((Bit(a, 5) + Bit(b, 5)) % 2)
  + 64 * ((Bit(a, 6) + Bit(b, 6)) % 2)
  + 128 * ((Bit(a, 7) + Bit(b, 7)) % 2)

\* ((x >> r) | (x << (8 - r))) & 0xFF for x in 0..255, r in 0..7: the two
\* shifted parts have no bit in common below bit 8, so | is +
RotateRight(x, r) == ((x \div (2 ^ r)) + (x * (2 ^ (8 - r)))) % 256

\* a left rotation that loses the bits shifted out at the top
ShiftLeft(x, r) == (x * (2 ^ r)) % 256

\* ((x << r) | (x >> (8 - r))) & 0xFF for x in 0..255, r in 0..7
RotateLeft(x, r) == ((x * (2 ^ r)) % 256) + (x \div (2 ^ (8 - r)))

\* ((x & 0x0F) << 4) | ((x & 0xF0) >> 4)
NibbleSwap(x) == ((x % 16) * 16) + (x \div 16)

(***************************************************************************)
(* hashlib.sha256 / hashlib.sha512.  The library digests are opaque to the *)
(* program: all it relies on is that a digest is a function of the hashed  *)
(* bytes and has the digest size of its hash.  The model uses a small      *)
(* mixing function with those two properties.                              *)
(***************************************************************************)
\* the bytes msg[lo..hi] folded pairwise into one number below 65521
RECURSIVE Absorb(_, _, _)
Absorb(msg, lo, hi) ==
    IF lo > hi THEN 1
    ELSE IF lo = hi THEN msg[lo] + 2
    ELSE LET mid == (lo + hi) \div 2
         IN  (Absorb(msg, lo, mid) * 257 + Absorb(msg, mid + 1, hi) * 31
                + (hi - lo)) % 65521

digest_size(hash_func) ==
    IF hash_func = "sha256" THEN Sha256DigestSize ELSE Sha512DigestSize

\* the digest bytes spread from the absorbed number h
Squeeze(h, size) ==
    [i \in 1..size
        |-> (((h % 4093) + 3 * i) * ((h % 251) + 5 * i + 1) + (h \div 256) * i) % 256]

\* hash_func(msg).digest()
digest(hash_func, msg) ==
    Squeeze(Absorb(msg, 1, Len(msg)) + (IF hash_func = "sha256" THEN 0 ELSE 77),
            digest_size(hash_func))

(***************************************************************************)
(* BitwiseDualKeyAnonymizer._generate_sequence                             *)
(***************************************************************************)
\* the while loop: blocks holds the digests appended to result so far, each
\* of digest_size(hash_func) bytes, so len(result) is their number times
\* that size; the value is result[:length]
RECURSIVE generate_loop(_, _, _, _, _)
generate_loop(blocks, current_hash, key, hash_func, length) ==
    IF Len(blocks) * digest_size(hash_func) < length
    THEN LET next_hash == digest(hash_func, current_hash \o key)
         IN  generate_loop(Append(blocks, next_hash), next_hash, key, hash_func,
                           length)
    ELSE LET size == digest_size(hash_func)
         IN  [i \in 1..length
                 |-> blocks[((i - 1) \div size) + 1][((i - 1) % size) + 1]]

_generate_sequence(key, hash_func, length) ==
    generate_loop(<<>>, key, key, hash_func, length)

(***************************************************************************)
(* BitwiseDualKeyAnonymizer.__init__: self is the record of the instance's *)
(* four attributes.  A key given as str is encoded to bytes (keys in the   *)
(* model are ASCII, so the encoding keeps the code points).                *)
(***************************************************************************)
__init__(primary_key, secondary_key) ==
    LET pk == primary_key.val
        sk == secondary_key.val
    IN  [ primary_key        |-> pk,
          secondary_key      |-> sk,
          primary_sequence   |-> _generate_sequence(pk, "sha256", DefaultLength),
          secondary_sequence |-> _generate_sequence(sk, "sha512", DefaultLength) ]

(***************************************************************************)
(* BitwiseDualKeyAnonymizer._bitwise_transform_byte                        *)
(* (sequences are 1-based here: sequence[i] of the code is seq[i + 1])     *)
(***************************************************************************)
\* the transformation with the first layer left out in both directions
TransformWithoutPrimary(self, byte, position, reverse) ==
    LET secondary_mask ==
            self.secondary_sequence[(position % Len(self.secondary_sequence)) + 1]
        rotation == position % 8
        position_key == (secondary_mask + position) % 256
    IN  IF ~reverse
        THEN Xor(RotateRight(byte, rotation), position_key)
        ELSE RotateLeft(Xor(byte, position_key), rotation)

_bitwise_transform_byte(self, byte, position, reverse) ==
    LET primary_mask ==
            self.primary_sequence[(position % Len(self.primary_sequence)) + 1]
        secondary_mask ==
            self.secondary_sequence[(position % Len(self.secondary_sequence)) + 1]
        rotation == position % 8
        position_key == (secondary_mask + position) % 256
    IN  IF ~reverse
        THEN Xor(RotateRight(Xor(byte, primary_mask), rotation), position_key)
        ELSE Xor(RotateLeft(Xor(byte, position_key), rotation), primary_mask)

(***************************************************************************)
(* BitwiseDualKeyAnonymizer._positional_bit_scramble                       *)
(***************************************************************************)
\* a scramble whose mask is reduced modulo a prime instead of & 0xFF
ScrambleModPrime(byte, position, reverse) ==
    LET mask == (position * 13 + 41) % 251
    IN  IF ~reverse
        THEN LET result == Xor(byte, mask)
             IN  IF position % 2 = 1 THEN NibbleSwap(result) ELSE result
        ELSE LET swapped == IF position % 2 = 1 THEN NibbleSwap(byte) ELSE byte
             IN  Xor(swapped, mask)

_positional_bit_scramble(byte, position, reverse) ==
    LET mask == (position * 13 + 41) % 256
    IN  IF ~reverse
        THEN LET result == Xor(byte, mask)
             IN  IF position % 2 = 1 THEN NibbleSwap(result) ELSE result
        ELSE LET swapped == IF position % 2 = 1 THEN NibbleSwap(byte) ELSE byte
             IN  Xor(swapped, mask)

\* the body of the loop of anonymize: one byte at position pos
EncodeByte(self, byte, pos) ==
    _positional_bit_scramble(_bitwise_transform_byte(self, byte, pos, FALSE),
                             pos, FALSE)

\* the body of the loop of deanonymize: one byte at position pos
DecodeByte(self, byte, pos) ==
    _bitwise_transform_byte(self, _positional_bit_scramble(byte, pos, TRUE),
                            pos, TRUE)

(***************************************************************************)
(* Python integers of any size, as big-endian base-256 digit sequences.    *)
(***************************************************************************)
RECURSIVE StripLeadingZeros(_)
StripLeadingZeros(digits) ==
    IF digits # <<>> /\ Head(digits) = 0 THEN StripLeadingZeros(Tail(digits))
    ELSE digits

\* int.from_bytes(data, byteorder="little"): the bytes read in the opposite
\* order
RECURSIVE ReverseBytes(_)
ReverseBytes(data) ==
    IF data = <<>> THEN <<>> ELSE ReverseBytes(Tail(data)) \o <<Head(data)>>

IntFromBytesLittle(data) == StripLeadingZeros(ReverseBytes(data))

\* int.from_bytes(data, byteorder="big")
int_from_bytes(data) == StripLeadingZeros(data)

\* divmod(number, 36) by long division: [q |-> quotient, r |-> remainder]
RECURSIVE DivMod36Loop(_, _, _)
DivMod36Loop(digits, quotient, rem) ==
    IF digits = <<>> THEN [q |-> StripLeadingZeros(quotient), r |-> rem]
    ELSE LET cur == rem * 256 + Head(digits)
         IN  DivMod36Loop(Tail(digits), Append(quotient, cur \div 36), cur % 36)

divmod36(number) == DivMod36Loop(number, <<>>, 0)

\* number * 36 + d for a digit d in 0..35
RECURSIVE MulAdd36Loop(_, _, _)
MulAdd36Loop(digits, i, carry) ==
    IF i = 0 THEN (IF carry = 0 THEN <<>> ELSE <<carry>>)
    ELSE LET cur == digits[i] * 36 + carry
         IN  Append(MulAdd36Loop(digits, i - 1, cur \div 256), cur % 256)

muladd36(number, d) == MulAdd36Loop(number, Len(number), d)

\* number.bit_length()
RECURSIVE BitLength8(_)
BitLength8(x) == IF x = 0 THEN 0 ELSE 1 + BitLength8(x \div 2)

bit_length(number) ==
    IF number = <<>> THEN 0
    ELSE 8 * (Len(number) - 1) + BitLength8(Head(number))

(***************************************************************************)
(* Python str values: sequences of code points.  Str turns a tuple of      *)
(* one-character strings into the code points of the printable ASCII       *)
(* characters they name.                                                   *)
(***************************************************************************)
AsciiTable ==
    << " ", "!", "quote", "#", "$", "%", "&", "'", "(", ")", "*", "+", ",", "-",
       ".", "/", "0", "1", "2", "3", "4", "5", "6", "7", "8", "9", ":", ";",
       "<", "=", ">", "?", "@", "A", "B", "C", "D", "E", "F", "G", "H", "I",
       "J", "K", "L", "M", "N", "O", "P", "Q", "R", "S", "T", "U", "V", "W",
       "X", "Y", "Z", "[", "backslash", "]", "^", "_", "backtick", "a", "b", "c", "d", "e",
       "f", "g", "h", "i", "j", "k", "l", "m", "n", "o", "p", "q", "r", "s",
       "t", "u", "v", "w", "x", "y", "z", "{", "|", "}", "~" >>

Ord(c) == 31 + CHOOSE i \in 1..Len(AsciiTable) : AsciiTable[i] = c

Str(chars) == [i \in 1..Len(chars) |-> Ord(chars[i])]

\* s[n:] for n >= 0
SliceFrom(s, n) == SubSeq(s, n + 1, Len(s))

\* str.split(sep) for a one-character separator: the list of the parts
RECURSIVE SplitLoop(_, _, _, _)
SplitLoop(s, sep, i, cur) ==
    IF i > Len(s) THEN <<cur>>
    ELSE IF s[i] = sep THEN <<cur>> \o SplitLoop(s, sep, i + 1, <<>>)
    ELSE SplitLoop(s, sep, i + 1, Append(cur, s[i]))

split(s, sep) == SplitLoop(s, sep, 1, <<>>)

(***************************************************************************)
(* The result of a call: exc is "" when the call returned value, and the   *)
(* class of the exception when it raised; stage names the statement of     *)
(* deanonymize (or anonymize) that raised.  payload and typed_data record  *)
(* two intermediate values of deanonymize: the inverse-transformed bytes   *)
(* with their leading version byte, and the text decoded from them (<<>>   *)
(* when the call did not get to compute them).                             *)
(***************************************************************************)
NoValue == [type |-> "", val |-> <<>>]

Return(value) ==
    [exc |-> "", stage |-> "", value |-> value, payload |-> <<>>, typed_data |-> <<>>]

Raise(exc, stage) ==
    [exc |-> exc, stage |-> stage, value |-> NoValue, payload |-> <<>>,
     typed_data |-> <<>>]

\* isinstance(e, ValueError): UnicodeDecodeError and UnicodeEncodeError are
\* subclasses of ValueError; OverflowError and decimal.InvalidOperation are
\* ArithmeticErrors
IsValueError(exc) ==
    exc \in {"ValueError", "UnicodeDecodeError", "UnicodeEncodeError"}

(***************************************************************************)
(* int(text, base) for base 10 and base 36, as CPython parses it: white    *)
(* space around the literal is skipped, one sign may precede the digits,   *)
(* letters count in either case, and single underscores may separate       *)
(* digits.  White space is \t \n \v \f \r, the space and the Unicode white *)
(* space above 127; the digits are those of ASCII and the Unicode decimal  *)
(* digits (Unicode 15.0, the tables of CPython 3.12).                      *)
(***************************************************************************)
AsciiSpace == {9, 10, 11, 12, 13, 32}

\* str.isspace()
UnicodeSpace ==
    AsciiSpace \cup {28, 29, 30, 31, 133, 160, 5760, 8232, 8233, 8239, 8287, 12288}
               \cup (8192..8202)

\* the white space int() and float() skip: the separators 28..31 are ASCII
\* and kept as they are
IntSpace == UnicodeSpace \ (28..31)

\* the code points of the digit zero of each script with decimal digits;
\* the nine code points after each are its digits one to nine
UnicodeDigitZeros ==
    {1632, 1776, 1984, 2406, 2534, 2662, 2790, 2918, 3046, 3174, 3302, 3430,
     3558, 3664, 3792, 3872, 4160, 4240, 6112, 6160, 6470, 6608, 6784, 6800,
     6992, 7088, 7232, 7248, 42528, 43216, 43264, 43472, 43504, 43600, 44016,
     65296, 66720, 68912, 69734, 69872, 69942, 70096, 70384, 70736, 70864,
     71248, 71360, 71472, 71904, 72016, 72784, 73040, 73120, 73552, 92768,
     92864, 93008, 120782, 120792, 120802, 120812, 120822, 123200, 123632,
     124144, 125264, 130032}

\* the value of the character c as a digit, or 99 when it is none
DigitValue(c) ==
    IF c \in 48..57 THEN c - 48
    ELSE IF c \in 65..90 THEN c - 55
    ELSE IF c \in 97..122 THEN c - 87
    ELSE IF \E z \in UnicodeDigitZeros : c \in z..(z + 9)
    THEN c - (CHOOSE z \in UnicodeDigitZeros : c \in z..(z + 9))
    ELSE 99

RECURSIVE SkipSpaces(_, _, _, _)
SkipSpaces(text, i, step, spaces) ==
    IF i >= 1 /\ i <= Len(text) /\ text[i] \in spaces
    THEN SkipSpaces(text, i + step, step, spaces)
    ELSE i

\* the digit values of text[i..j], underscores dropped; <<99>> when the
\* slice is no literal of the base
RECURSIVE DigitsOf(_, _, _, _, _)
DigitsOf(text, i, j, base, prevUnderscore) ==
    IF i > j THEN (IF prevUnderscore THEN <<99>> ELSE <<>>)
    ELSE IF text[i] = 95
         THEN IF prevUnderscore THEN <<99>>
              ELSE DigitsOf(text, i + 1, j, base, TRUE)
    ELSE IF DigitValue(text[i]) >= base THEN <<99>>
    ELSE LET rest == DigitsOf(text, i + 1, j, base, FALSE)
         IN  IF rest = <<99>> THEN rest ELSE <<DigitValue(text[i])>> \o rest

\* the literal text[first..last] once the white space around it is skipped
IntLiteralBody(text, base, first, last, signed) ==
    LET digits == IF first + signed > last THEN <<99>>
                  ELSE DigitsOf(text, first + signed, last, base, TRUE)
    IN  [ ok     |-> digits # <<99>>,
          neg    |-> signed = 1 /\ text[first] = 45,
          digits |-> digits ]

IntLiteralTrimmed(text, base, first, last) ==
    IntLiteralBody(text, base, first, last,
                   IF first <= last /\ text[first] \in {43, 45} THEN 1 ELSE 0)

\* [ok, neg, digits]: whether text is an integer literal of the base, its
\* sign and the values of its digits (<<99>> when it is none)
IntLiteral(text, base) ==
    IntLiteralTrimmed(text, base, SkipSpaces(text, 1, 1, IntSpace),
                      SkipSpaces(text, Len(text), -1, IntSpace))

(***************************************************************************)
(* The base-36 codec.                                                      *)
(***************************************************************************)
\* an alphabet with the letters in lower case
alphabetLower(i) == IF i < 10 THEN 48 + i ELSE 87 + i

\* alphabet[i] of _to_base36, as a code point
alphabet(i) == IF i < 10 THEN 48 + i ELSE 55 + i

\* BitwiseDualKeyAnonymizer._to_base36
RECURSIVE to_base36_loop(_, _)
to_base36_loop(number, base36) ==
    IF number = <<>> THEN base36
    ELSE LET qr == divmod36(number)
         IN  to_base36_loop(qr.q, <<alphabet(qr.r)>> \o base36)

_to_base36(number) ==
    IF number = <<>> THEN Str(<<"0">>) ELSE to_base36_loop(number, <<>>)

\* BitwiseDualKeyAnonymizer._from_base36: int(base36_str, 36), as
\* [exc, neg, number] with number the magnitude
RECURSIVE Accumulate36(_, _, _)
Accumulate36(digits, i, number) ==
    IF i > Len(digits) THEN number
    ELSE Accumulate36(digits, i + 1, muladd36(number, digits[i]))

IntFromLiteral36(lit) ==
    IF ~lit.ok THEN [exc |-> "ValueError", neg |-> FALSE, number |-> <<>>]
    ELSE [exc |-> "", neg |-> lit.neg, number |-> Accumulate36(lit.digits, 1, <<>>)]

_from_base36(base36_str) == IntFromLiteral36(IntLiteral(base36_str, 36))

\* BitwiseDualKeyAnonymizer._bytes_to_base36
_bytes_to_base36(data) == _to_base36(int_from_bytes(data))

\* number.to_bytes(byte_length, byteorder="big") for number >= 0
to_bytes(number, byte_length) ==
    [i \in 1..(byte_length - Len(number)) |-> 0] \o number

\* byte_length rounded down: to_bytes raises OverflowError for a number
\* that needs more bytes
BytesOfNumberFloor(n) ==
    IF n.exc # "" THEN [exc |-> n.exc, stage |-> "_from_base36", bytes |-> <<>>]
    ELSE IF (n.neg /\ n.number # <<>>) \/ bit_length(n.number) \div 8 < Len(n.number)
    THEN [exc |-> "OverflowError", stage |-> "to_bytes", bytes |-> <<>>]
    ELSE [exc |-> "", stage |-> "",
          bytes |-> to_bytes(n.number, bit_length(n.number) \div 8)]

\* the last two statements of _base36_to_bytes for number = n: a negative
\* number (the literal had a minus sign and is not zero) cannot be
\* converted by to_bytes
BytesOfNumber(n) ==
    IF n.exc # "" THEN [exc |-> n.exc, stage |-> "_from_base36", bytes |-> <<>>]
    ELSE IF n.neg /\ n.number # <<>>
    THEN [exc |-> "OverflowError", stage |-> "to_bytes", bytes |-> <<>>]
    ELSE [exc |-> "", stage |-> "",
          bytes |-> to_bytes(n.number, (bit_length(n.number) + 7) \div 8)]

\* BitwiseDualKeyAnonymizer._base36_to_bytes, as [exc, stage, bytes]
_base36_to_bytes(base36_str) == BytesOfNumber(_from_base36(base36_str))

(***************************************************************************)
(* str.encode() and bytes.decode(): UTF-8, strict.                         *)
(***************************************************************************)
IsSurrogate(cp) == cp >= 55296 /\ cp <= 57343

EncodeChar(cp) ==
    IF cp < 128 THEN <<cp>>
    ELSE IF cp < 2048 THEN <<192 + (cp \div 64), 128 + (cp % 64)>>
    ELSE IF cp < 65536
         THEN <<224 + (cp \div 4096), 128 + ((cp \div 64) % 64), 128 + (cp % 64)>>
    ELSE <<240 + (cp \div 262144), 128 + ((cp \div 4096) % 64),
           128 + ((cp \div 64) % 64), 128 + (cp % 64)>>

RECURSIVE EncodeLoop(_, _)
EncodeLoop(text, i) ==
    IF i > Len(text) THEN <<>> ELSE EncodeChar(text[i]) \o EncodeLoop(text, i + 1)

\* text.encode(), as [exc, bytes]
encode(text) ==
    IF \E i \in 1..Len(text) : IsSurrogate(text[i])
    THEN [exc |-> "UnicodeEncodeError", bytes |-> <<>>]
    ELSE [exc |-> "", bytes |-> EncodeLoop(text, 1)]

IsCont(data, i) == i <= Len(data) /\ data[i] >= 128 /\ data[i] <= 191

\* the number of bytes of the well-formed UTF-8 sequence that starts at
\* data[i], or 0 when none starts there
SeqLenAt(data, i) ==
    LET b == data[i]
    IN  IF b < 128 THEN 1
        ELSE IF b >= 194 /\ b <= 223 /\ IsCont(data, i + 1) THEN 2
        ELSE IF b >= 224 /\ b <= 239 /\ IsCont(data, i + 1) /\ IsCont(data, i + 2)
                /\ (b = 224 => data[i + 1] >= 160)
                /\ (b = 237 => data[i + 1] <= 159) THEN 3
        ELSE IF b >= 240 /\ b <= 244 /\ IsCont(data, i + 1) /\ IsCont(data, i + 2)
                /\ IsCont(data, i + 3)
                /\ (b = 240 => data[i + 1] >= 144)
                /\ (b = 244 => data[i + 1] <= 143) THEN 4
        ELSE 0

DecodeChar(data, i, n) ==
    IF n = 1 THEN data[i]
    ELSE IF n = 2 THEN (data[i] - 192) * 64 + (data[i + 1] - 128)
    ELSE IF n = 3
         THEN (data[i] - 224) * 4096 + (data[i + 1] - 128) * 64 + (data[i + 2] - 128)
    ELSE (data[i] - 240) * 262144 + (data[i + 1] - 128) * 4096
           + (data[i + 2] - 128) * 64 + (data[i + 3] - 128)

\* the decoded code points of data[i..], or <<-1>> when data is no UTF-8
RECURSIVE DecodeLoop(_, _)
DecodeLoop(data, i) ==
    IF i > Len(data) THEN <<>>
    ELSE LET n == SeqLenAt(data, i)
         IN  IF n = 0 THEN <<-1>>
             ELSE LET rest == DecodeLoop(data, i + n)
                  IN  IF rest = <<-1>> THEN rest
                      ELSE <<DecodeChar(data, i, n)>> \o rest

DecodeResult(text) ==
    IF text = <<-1>> THEN [exc |-> "UnicodeDecodeError", text |-> <<>>]
    ELSE [exc |-> "", text |-> text]

\* data.decode(), as [exc, text]
decode(data) == DecodeResult(DecodeLoop(data, 1))

(***************************************************************************)
(* Python objects.  val is always a sequence of integers:                  *)
(*   NoneType <<>>          bool <<0>>, <<1>>          int <<n>>           *)
(*   str      the code points                                              *)
(*   float    <<sign, m, k, 2>>: (-1)^sign * m / 2^k, k = 0 or m odd, or   *)
(*            <<sign, n, j, 10>>: the double nearest to (-1)^sign * n/10^j *)
(*            when that decimal is no such m / 2^k                         *)
(*   Decimal  <<sign, coefficient, d>>: (-1)^sign * coefficient / 10^d     *)
(***************************************************************************)
PyNone == [type |-> "NoneType", val |-> <<>>]
PyBool(b) == [type |-> "bool", val |-> <<IF b THEN 1 ELSE 0>>]
PyInt(n) == [type |-> "int", val |-> <<n>>]
PyStr(text) == [type |-> "str", val |-> text]
PyBytes(data) == [type |-> "bytes", val |-> data]
PyFloat(sign, m, k) == [type |-> "float", val |-> <<sign, m, k, 2>>]
PyDecimal(sign, coefficient, d) == [type |-> "Decimal", val |-> <<sign, coefficient, d>>]

\* DataType: the markers and the Python type each stands for
DataType ==
    [ S |-> "str", I |-> "int", F |-> "float", B |-> "bool",
      D |-> "Decimal", N |-> "NoneType" ]

MarkerNames == <<"S", "I", "F", "B", "D", "N">>

\* the code points of the values of DataType
DataTypeValues == {Ord(MarkerNames[i]) : i \in 1..Len(MarkerNames)}

\* DataType(type_marker).name for a marker in DataTypeValues
MarkerName(type_marker) ==
    MarkerNames[CHOOSE i \in 1..Len(MarkerNames) : Ord(MarkerNames[i]) = type_marker]

(***************************************************************************)
(* Decimal digits.                                                         *)
(***************************************************************************)
\* str(n) for n >= 0
RECURSIVE NatToStr(_)
NatToStr(n) ==
    IF n < 10 THEN <<48 + n>> ELSE Append(NatToStr(n \div 10), 48 + (n % 10))

\* str(n)
IntToStr(n) == IF n < 0 THEN <<45>> \o NatToStr(-n) ELSE NatToStr(n)

\* the number with the given decimal digit values
RECURSIVE DigitsToNat(_, _, _)
DigitsToNat(digits, i, acc) ==
    IF i > Len(digits) THEN acc ELSE DigitsToNat(digits, i + 1, acc * 10 + digits[i])

RECURSIVE Pow(_, _)
Pow(b, e) == IF e = 0 THEN 1 ELSE b * Pow(b, e - 1)

\* the digits padded with leading zeros to n characters at least
ZeroPad(digits, n) == [i \in 1..(n - Len(digits)) |-> 48] \o digits

PointBefore(sign, padded, d) ==
    (IF sign = 1 THEN <<45>> ELSE <<>>)
      \o SubSeq(padded, 1, Len(padded) - d)
      \o (IF d = 0 THEN <<>>
          ELSE <<46>> \o SubSeq(padded, Len(padded) - d + 1, Len(padded)))

\* (-1)^sign * n / 10^d written without exponent: the digits of n with a
\* point before the last d of them
FixedPoint(sign, n, d) == PointBefore(sign, ZeroPad(NatToStr(n), d + 1), d)

\* f"{f:.17g}" for m / 2^k = m * 5^k / 10^k: a value with at most 17
\* significant digits and magnitude in [1e-4, 1e17) is printed exactly,
\* without exponent and without trailing zeros
FormatFloat17g(f) == FixedPoint(f.val[1], f.val[2] * Pow(5, f.val[3]), f.val[3])

\* str(d) for a Decimal with exponent -d <= 0 and adjusted exponent >= -6
DecimalToStr(d) == FixedPoint(d.val[1], d.val[2], d.val[3])

\* the number text[start..last], its point at index point (last + 1 when it
\* has none)
PlainNumberAt(text, sign, start, last, points, point) ==
    [ ok    |-> /\ start <= last
                /\ Cardinality(points) <= 1
                /\ \A i \in (start..last) \ points : DigitValue(text[i]) < 10
                /\ last - start + 1 > Cardinality(points),
      sign  |-> sign,
      whole |-> [i \in 1..(point - start) |-> DigitValue(text[start + i - 1])],
      frac  |-> [i \in 1..(last - point) |-> DigitValue(text[point + i])] ]

PlainNumberBody(text, sign, start, last, points) ==
    PlainNumberAt(text, sign, start, last, points,
                  IF points = {} THEN last + 1 ELSE CHOOSE i \in points : TRUE)

PlainNumberTrimmed(text, first, last, signed) ==
    PlainNumberBody(text, IF signed = 1 /\ text[first] = 45 THEN 1 ELSE 0,
                    first + signed, last,
                    {i \in (first + signed)..last : text[i] = 46})

\* [ok, sign, whole, frac]: text as  [sign] digits [. [digits]]  or
\* [sign] . digits; whole and frac hold the digit values
PlainNumber(text) ==
    PlainNumberTrimmed(text, 1, Len(text),
                       IF text # <<>> /\ text[1] \in {43, 45} THEN 1 ELSE 0)

\* text without the white space around it
Strip(text, spaces) ==
    SubSeq(text, SkipSpaces(text, 1, 1, spaces),
           SkipSpaces(text, Len(text), -1, spaces))

NotUnderscore(c) == c # 95

\* float() takes an underscore between two digits only
UnderscoresBetweenDigits(text) ==
    \A i \in 1..Len(text) :
        text[i] = 95 => /\ i > 1 /\ i < Len(text)
                        /\ DigitValue(text[i - 1]) < 10
                        /\ DigitValue(text[i + 1]) < 10

\* the number float() reads in text, as PlainNumber
FloatNumber(text) ==
    IF UnderscoresBetweenDigits(text)
    THEN PlainNumber(SelectSeq(text, NotUnderscore))
    ELSE [ok |-> FALSE, sign |-> 0, whole |-> <<>>, frac |-> <<>>]

\* the number Decimal() reads in text, as PlainNumber: every underscore
\* is dropped
DecimalNumber(text) == PlainNumber(SelectSeq(text, NotUnderscore))

IsLetter(c) == c \in 65..90 \/ c \in 97..122

\* the letters of text, in lower case
LettersOf(text) ==
    [i \in 1..Len(SelectSeq(text, IsLetter))
        |-> LET c == SelectSeq(text, IsLetter)[i] IN IF c < 97 THEN c + 32 ELSE c]

\* the letters of the texts with letters that float() or Decimal() accept:
\* an exponent, inf, infinity, nan, snan
NumberWords ==
    {Str(<<"e">>), Str(<<"i", "n", "f">>), Str(<<"n", "a", "n">>),
     Str(<<"s", "n", "a", "n">>), Str(<<"i", "n", "f", "i", "n", "i", "t", "y">>)}

\* whether float() or Decimal() may accept text in a form PlainNumber does
\* not cover (exponents, inf, nan)
BeyondPlain(text) == LettersOf(text) \in NumberWords

RECURSIVE DropTrailingZeros(_)
DropTrailingZeros(digits) ==
    IF digits # <<>> /\ digits[Len(digits)] = 0
    THEN DropTrailingZeros(SubSeq(digits, 1, Len(digits) - 1))
    ELSE digits

\* m / 2^k with k = 0 or m odd
RECURSIVE Dyadic(_, _, _)
Dyadic(sign, m, k) ==
    IF k > 0 /\ m % 2 = 0 THEN Dyadic(sign, m \div 2, k - 1) ELSE PyFloat(sign, m, k)

\* the float of the decimal n / 10^j
FloatOfDecimal(sign, n, j) ==
    IF n % Pow(5, j) = 0 THEN Return(Dyadic(sign, n \div Pow(5, j), j))
    ELSE Return([type |-> "float", val |-> <<sign, n, j, 10>>])

FloatOfPlain(text, p, frac) ==
    IF ~p.ok
    THEN Raise(IF BeyondPlain(text) THEN "Unmodelled" ELSE "ValueError",
               "_deserialize_with_type")
    ELSE FloatOfDecimal(p.sign, DigitsToNat(p.whole \o frac, 1, 0), Len(frac))

FloatOfNumber(text, p) == FloatOfPlain(text, p, DropTrailingZeros(p.frac))

\* float(text), as a call result
ParseFloat(text) == FloatOfNumber(text, FloatNumber(Strip(text, IntSpace)))

DecimalOfNumber(text, p) ==
    IF ~p.ok
    THEN Raise(IF BeyondPlain(text) THEN "Unmodelled" ELSE "InvalidOperation",
               "_deserialize_with_type")
    ELSE Return(PyDecimal(p.sign, DigitsToNat(p.whole \o p.frac, 1, 0), Len(p.frac)))

\* Decimal(text), as a call result
ParseDecimal(text) == DecimalOfNumber(text, DecimalNumber(Strip(text, UnicodeSpace)))

IntOfLiteral(lit) ==
    IF ~lit.ok THEN Raise("ValueError", "_deserialize_with_type")
    ELSE Return(PyInt((IF lit.neg THEN -1 ELSE 1) * DigitsToNat(lit.digits, 1, 0)))

\* int(text), as a call result
ParseInt(text) == IntOfLiteral(IntLiteral(text, 10))

\* bool(n) of the result of int(text)
BoolOf(n) == IF n.exc # "" THEN n ELSE Return(PyBool(n.value.val[1] # 0))

(***************************************************************************)
(* BitwiseDualKeyAnonymizer.anonymize / deanonymize                        *)
(***************************************************************************)
\* the loop of anonymize over the version-prefixed bytes
TransformBytes(self, data) ==
    [i \in 1..Len(data) |-> EncodeByte(self, data[i], i - 1)]

\* the loop of deanonymize over the bytes decoded from base 36
InverseTransformBytes(self, anonymized_data) ==
    [i \in 1..Len(anonymized_data) |-> DecodeByte(self, anonymized_data[i], i - 1)]

\* the statements of anonymize after data.encode()
AnonymizeEncoded(self, encoded) ==
    IF encoded.exc # "" THEN [exc |-> encoded.exc, text |-> <<>>]
    ELSE [exc  |-> "",
          text |-> _bytes_to_base36(
                       TransformBytes(self, <<VersionByte>> \o encoded.bytes))]

\* BitwiseDualKeyAnonymizer.anonymize for a str argument, as [exc, text]
base_anonymize(self, data) == AnonymizeEncoded(self, encode(data))

\* the statements of deanonymize after _base36_to_bytes: payload is the
\* local variable result, bytes the returned result[1:]
DeanonymizeBytes(anonymized_data, result) ==
    IF anonymized_data.exc # ""
    THEN [exc |-> anonymized_data.exc, stage |-> anonymized_data.stage,
          payload |-> <<>>, bytes |-> <<>>]
    ELSE [exc |-> "", stage |-> "", payload |-> result,
          bytes |-> SliceFrom(result, 1)]

DeanonymizeDecoded(self, anonymized_data) ==
    DeanonymizeBytes(anonymized_data,
                     InverseTransformBytes(self, anonymized_data.bytes))

\* BitwiseDualKeyAnonymizer.deanonymize, as [exc, stage, payload, bytes]
base_deanonymize(self, base36_str) ==
    DeanonymizeDecoded(self, _base36_to_bytes(base36_str))

(***************************************************************************)
(* TypeAwareDualKeyAnonymizer                                              *)
(***************************************************************************)
\* _serialize_with_type: [text, data_type], data_type the name of the
\* DataType member; the cases are tried in the order of the match statement
\* the match statement with case int() before case bool(): True and False
\* are instances of int
SerializeIntBeforeBool(data) ==
    IF data.type = "NoneType" THEN [text |-> Str(<<"N", "o", "n", "e">>), data_type |-> "N"]
    ELSE IF data.type = "bool"
    THEN [text |-> IF data.val[1] = 1 THEN Str(<<"T", "r", "u", "e">>)
                   ELSE Str(<<"F", "a", "l", "s", "e">>),
          data_type |-> "I"]
    ELSE IF data.type = "int" THEN [text |-> IntToStr(data.val[1]), data_type |-> "I"]
    ELSE IF data.type = "float" THEN [text |-> FormatFloat17g(data), data_type |-> "F"]
    ELSE IF data.type = "Decimal" THEN [text |-> DecimalToStr(data), data_type |-> "D"]
    ELSE [text |-> data.val, data_type |-> "S"]

\* the match statement with an empty text for None
SerializeNoneAsEmpty(data) ==
    IF data.type = "NoneType" THEN [text |-> <<>>, data_type |-> "N"]
    ELSE IF data.type = "bool" THEN [text |-> IntToStr(data.val[1]), data_type |-> "B"]
    ELSE IF data.type = "int" THEN [text |-> IntToStr(data.val[1]), data_type |-> "I"]
    ELSE IF data.type = "float" THEN [text |-> FormatFloat17g(data), data_type |-> "F"]
    ELSE IF data.type = "Decimal" THEN [text |-> DecimalToStr(data), data_type |-> "D"]
    ELSE [text |-> data.val, data_type |-> "S"]

_serialize_with_type(data) ==
    IF data.type = "NoneType" THEN [text |-> Str(<<"N", "o", "n", "e">>), data_type |-> "N"]
    ELSE IF data.type = "bool" THEN [text |-> IntToStr(data.val[1]), data_type |-> "B"]
    ELSE IF data.type = "int" THEN [text |-> IntToStr(data.val[1]), data_type |-> "I"]
    ELSE IF data.type = "float" THEN [text |-> FormatFloat17g(data), data_type |-> "F"]
    ELSE IF data.type = "Decimal" THEN [text |-> DecimalToStr(data), data_type |-> "D"]
    ELSE [text |-> data.val, data_type |-> "S"]

\* _deserialize_with_type, as a call result
_deserialize_with_type(data, data_type) ==
    IF data_type = "N" THEN Return(PyNone)
    ELSE IF data_type = "B" THEN BoolOf(ParseInt(SliceFrom(data, 2)))
    ELSE IF data_type = "I" THEN ParseInt(SliceFrom(data, 2))
    ELSE IF data_type = "F" THEN ParseFloat(SliceFrom(data, 2))
    ELSE IF data_type = "D" THEN ParseDecimal(SliceFrom(data, 2))
    ELSE Return(PyStr(SliceFrom(data, 2)))

TOKEN_VERSION == Str(<<"1">>)
TOKEN_PREFIX == Str(<<"T", "K", "N">>)

\* _create_token
_create_token(type_marker, data) ==
    TOKEN_PREFIX \o Str(<<"_", "V">>) \o TOKEN_VERSION \o Str(<<"_">>)
        \o <<type_marker>> \o data

BadToken == [exc |-> "ValueError", type_marker |-> 0, data |-> <<>>]

\* _parse_token without the comparison of the version
ParsePartsAnyVersion(parts) ==
    IF Len(parts) # 3 \/ parts[1] # TOKEN_PREFIX THEN BadToken
    ELSE IF parts[3] = <<>> THEN BadToken
    ELSE [exc |-> "", type_marker |-> parts[3][1], data |-> SliceFrom(parts[3], 1)]

ParseParts(parts) ==
    IF Len(parts) # 3 \/ parts[1] # TOKEN_PREFIX THEN BadToken
    ELSE IF parts[3] = <<>> THEN BadToken
    ELSE IF parts[2] # Str(<<"V">>) \o TOKEN_VERSION THEN BadToken
    ELSE [exc |-> "", type_marker |-> parts[3][1], data |-> SliceFrom(parts[3], 1)]

\* _parse_token, as [exc, type_marker, data].  Every exception raised in
\* the try block, the IndexError of combined_data[0] included, is replaced
\* by a ValueError.
_parse_token(token) == ParseParts(split(token, Ord("_")))

\* the last statement of anonymize
TokenOf(type_marker, anonymized) ==
    IF anonymized.exc # "" THEN Raise(anonymized.exc, "encode")
    ELSE Return(PyStr(_create_token(type_marker, anonymized.text)))

AnonymizeSerialized(self, serialized, type_marker) ==
    TokenOf(type_marker,
            base_anonymize(self, <<type_marker, Ord(":")>> \o serialized))

AnonymizeTyped(self, ser) == AnonymizeSerialized(self, ser.text, Ord(ser.data_type))

\* TypeAwareDualKeyAnonymizer.anonymize, as a call result (the token is a
\* str object)
anonymize(self, data) == AnonymizeTyped(self, _serialize_with_type(data))

\* r with the intermediate values of deanonymize
WithTrace(r, payload, typed_data) ==
    [exc |-> r.exc, stage |-> r.stage, value |-> r.value,
     payload |-> payload, typed_data |-> typed_data]

\* return self._deserialize_with_type(typed_data, data_type)
DeanonymizeText(data_type, anonymized, typed_data) ==
    IF typed_data.exc # ""
    THEN WithTrace(Raise(typed_data.exc, "decode"), anonymized.payload, <<>>)
    ELSE WithTrace(_deserialize_with_type(typed_data.text, data_type),
                   anonymized.payload, typed_data.text)

\* typed_data = super().deanonymize(anonymized).decode()
DeanonymizePayload(data_type, anonymized) ==
    IF anonymized.exc # "" THEN Raise(anonymized.exc, anonymized.stage)
    ELSE DeanonymizeText(data_type, anonymized, decode(anonymized.bytes))

\* deanonymize with the payload decoded before the marker is looked up
DeanonymizeDecodedFirst(self, parsed) ==
    IF parsed.exc # "" THEN Raise(parsed.exc, "_parse_token")
    ELSE IF base_deanonymize(self, parsed.data).exc # ""
    THEN Raise(base_deanonymize(self, parsed.data).exc,
               base_deanonymize(self, parsed.data).stage)
    ELSE IF parsed.type_marker \notin DataTypeValues
    THEN Raise("ValueError", "DataType")
    ELSE DeanonymizePayload(MarkerName(parsed.type_marker),
                            base_deanonymize(self, parsed.data))

\* data_type = DataType(type_marker) and what follows it
DeanonymizeParsed(self, parsed) ==
    IF parsed.exc # "" THEN Raise(parsed.exc, "_parse_token")
    ELSE IF parsed.type_marker \notin DataTypeValues
    THEN Raise("ValueError", "DataType")
    ELSE DeanonymizePayload(MarkerName(parsed.type_marker),
                            base_deanonymize(self, parsed.data))

\* TypeAwareDualKeyAnonymizer.deanonymize, as a call result
deanonymize(self, token) == DeanonymizeParsed(self, _parse_token(token))

(***************************************************************************)
(* The inputs of the model.                                                *)
(***************************************************************************)
\* keys as the caller passes them: str or bytes
PrimaryKeys == {PyStr(Str(<<"k", "0">>)), PyStr(Str(<<"k", "1">>)),
                PyBytes(Str(<<"k", "1">>))}
SecondaryKeys == {PyStr(Str(<<"s", "1">>)), PyStr(Str(<<"s", "5">>))}

\* characters of 1, 2, 3 and 4 UTF-8 bytes: a, e-acute, the euro sign, U+1F44B;
\* and a lone surrogate, which str.encode() refuses
TextAlphabet == {97, 233, 8364, 128075, 55296}

RECURSIVE TextsUpTo(_)
TextsUpTo(n) ==
    IF n = 0 THEN {<<>>}
    ELSE {<<>>} \cup {Append(t, c) : t \in TextsUpTo(n - 1), c \in TextAlphabet}

Values ==
    {PyNone, PyBool(TRUE), PyBool(FALSE)}
      \cup {PyInt(n) : n \in (-MaxInt)..MaxInt}
      \cup {PyFloat(0, 3, 1), PyFloat(1, 1, 3)}
      \cup {PyDecimal(0, 150, 2)}
      \cup {PyStr(t) : t \in TextsUpTo(MaxTextLen)}

Instances == {1, 2}

(***************************************************************************)
(* The state: two anonymizer instances (as the demo of the module builds   *)
(* anonymizer and anonymizer2); call, the call just made with its result,  *)
(* until the caller drops the result; issued, one earlier anonymize call   *)
(* with the keys of the instance that served it; frames, the frame (local   *)
(* variables and position) of the call each thread is in the middle of.    *)
(***************************************************************************)
VARIABLES self, call, issued, frames

vars == <<self, call, issued, frames>>

Threads == {1, 2}

\* the frame of a thread that is in no call
NoFrame == [op |-> "", pc |-> ""]

NoFrames == [t \in Threads |-> NoFrame]

NoCall == [op |-> "", inst |-> 0, arg |-> NoValue, result |-> Return(NoValue)]

NoIssue == [live |-> FALSE, inst |-> 0, primary_key |-> <<>>, secondary_key |-> <<>>,
            arg |-> NoValue, result |-> Return(NoValue)]

Init ==
    /\ \E pk1 \in PrimaryKeys, sk1 \in SecondaryKeys,
          pk2 \in PrimaryKeys, sk2 \in SecondaryKeys :
          self = <<__init__(pk1, sk1), __init__(pk2, sk2)>>
    /\ call = NoCall
    /\ issued = NoIssue
    /\ frames = NoFrames

\* the call op(arg) on instance i has ended with result
Called(op, i, arg, result) ==
    call' = [op |-> op, inst |-> i, arg |-> arg, result |-> result]

\* the call that has ended with result, as kept in issued
Issue(i, arg, result) ==
    [live |-> TRUE, inst |-> i,
     primary_key |-> self[i].primary_key,
     secondary_key |-> self[i].secondary_key,
     arg |-> arg, result |-> result]

\* an anonymize call that returned a token may replace the call kept in
\* issued
Anonymized(i, data, result) ==
    /\ Called("anonymize", i, data, result)
    /\ \E remember \in BOOLEAN :
          issued' = IF remember /\ result.exc = ""
                    THEN Issue(i, data, result) ELSE issued
    /\ UNCHANGED <<self, frames>>

\* anonymize on an instance that uses up its primary sequence: every call
\* moves the sequence on by one byte
AnonymizeConsuming(i, data) ==
    /\ call = NoCall
    /\ Called("anonymize", i, data, anonymize(self[i], data))
    /\ \E remember \in BOOLEAN :
          issued' = IF remember THEN Issue(i, data, anonymize(self[i], data)) ELSE issued
    /\ self' = [self EXCEPT ![i].primary_sequence = Tail(@) \o <<Head(@)>>]
    /\ UNCHANGED frames

\* anonymizer.anonymize(data) on instance i
Anonymize(i, data) ==
    /\ call = NoCall
    /\ Anonymized(i, data, anonymize(self[i], data))

\* anonymizer.deanonymize(token) on instance i
Deanonymize(i, token) ==
    /\ call = NoCall
    /\ Called("deanonymize", i, PyStr(token), deanonymize(self[i], token))
    /\ UNCHANGED <<self, issued, frames>>

\* deanonymize of the token an earlier anonymize call returned
DeanonymizeIssued(i) ==
    /\ issued.live
    /\ Deanonymize(i, issued.result.value.val)

\* the caller drops the result of the call
Discard ==
    /\ call # NoCall
    /\ call' = NoCall
    /\ UNCHANGED <<self, issued, frames>>

Next ==
    \/ \E i \in Instances, data \in Values : Anonymize(i, data)
    \/ \E i \in Instances : DeanonymizeIssued(i)
    \/ Discard

Spec == Init /\ [][Next]_vars

(***************************************************************************)
(* The two byte transformations alone: the body of the loop of anonymize   *)
(* applied to one byte at one position, then the body of the loop of       *)
(* deanonymize applied to what came out, at the same position.             *)
(***************************************************************************)
Bytes == 0..255

\* the first positions, and the positions where the key sequences wrap
Positions == (0..MaxPosition) \cup {DefaultLength - 1, DefaultLength + 1}

PyTuple(items) == [type |-> "tuple", val |-> items]

\* both instances are built from the same two keys
InitSameKeys ==
    /\ \E pk \in PrimaryKeys, sk \in SecondaryKeys :
          self = <<__init__(pk, sk), __init__(pk, sk)>>
    /\ call = NoCall
    /\ issued = NoIssue
    /\ frames = NoFrames

\* _positional_bit_scramble(_bitwise_transform_byte(byte, pos), pos)
TransformByte(i, byte, pos) ==
    /\ call = NoCall
    /\ Called("transform_byte", i, PyTuple(<<byte, pos>>),
              Return(PyInt(EncodeByte(self[i], byte, pos))))
    /\ UNCHANGED <<self, issued, frames>>

\* the reverse calls on the byte that came out, at the same position
InverseByte ==
    /\ call.op = "transform_byte"
    /\ Called("inverse_byte", call.inst,
              PyTuple(<<call.result.value.val[1], call.arg.val[2]>>),
              Return(PyInt(DecodeByte(self[call.inst], call.result.value.val[1],
                                      call.arg.val[2]))))
    /\ UNCHANGED <<self, issued, frames>>

NextByte ==
    \/ \E i \in Instances, byte \in Bytes, pos \in Positions :
          TransformByte(i, byte, pos)
    \/ InverseByte
    \/ Discard

SpecByte == InitSameKeys /\ [][NextByte]_vars

(***************************************************************************)
(* deanonymize of tokens that no anonymize call of the model returned:     *)
(* texts written by hand, and tokens another producer made for the keys    *)
(* of the instance.                                                        *)
(***************************************************************************)
\* payload characters: two base-36 digits, a lowercase letter, a space and
\* the two signs
PayloadAlphabet == {Ord("0"), Ord("Z"), Ord("a"), Ord(" "), Ord("+"), Ord("-")}

RECURSIVE PayloadsUpTo(_)
PayloadsUpTo(n) ==
    IF n = 0 THEN {<<>>}
    ELSE {<<>>} \cup {Append(t, c) : t \in PayloadsUpTo(n - 1), c \in PayloadAlphabet}

\* the six markers of DataType and one that is none of them
HeaderMarkers == DataTypeValues \cup {Ord("X")}

\* "_".join(parts)
RECURSIVE JoinParts(_)
JoinParts(parts) ==
    IF parts = <<>> THEN <<>>
    ELSE IF Len(parts) = 1 THEN parts[1]
    ELSE parts[1] \o Str(<<"_">>) \o JoinParts(Tail(parts))

\* texts with a wrong prefix, a wrong version, an empty third part, or
\* fewer or more than three parts
MalformedTokens ==
    {JoinParts(<<prefix, version, third>>) :
        prefix \in {TOKEN_PREFIX, Str(<<"X", "X", "X">>)},
        version \in {Str(<<"V", "1">>), Str(<<"V", "2">>)},
        third \in {<<>>, Str(<<"S">>), Str(<<"S", "0", "Z">>)}}
      \cup {JoinParts(parts) :
              parts \in {<<>>, <<TOKEN_PREFIX>>, <<TOKEN_PREFIX, Str(<<"V", "1">>)>>,
                         <<TOKEN_PREFIX, Str(<<"V", "1">>), Str(<<"S", "0">>),
                           Str(<<"Z">>)>>}}

CraftedTokens ==
    {_create_token(type_marker, data) :
        type_marker \in HeaderMarkers, data \in PayloadsUpTo(MaxPayloadLen)}
      \cup MalformedTokens

\* the token for the bytes version + typed_data under the keys of
\* instance i, with type_marker in its header
ForeignToken(i, type_marker, version, typed_data) ==
    _create_token(type_marker,
                  _bytes_to_base36(TransformBytes(self[i], <<version>> \o typed_data)))

\* version bytes of foreign tokens
VersionBytes == {0, VersionByte, 2}

\* the bytes after the version byte in foreign tokens: with a marker and a
\* colon, with an unknown marker, with no colon, with the colon elsewhere,
\* empty, and not UTF-8
TypedData ==
    {Str(<<"S", ":", "a">>), Str(<<"I", ":", "7">>), Str(<<"X", ":", "a">>),
     Str(<<"X", ":", "7">>), Str(<<"a", "b">>), Str(<<"S", "S", ":", "a">>),
     Str(<<":", "a">>), <<>>, <<255>>}

\* deanonymize of a token made for the keys of instance i
DeanonymizeForeign(i, type_marker, version, typed_data) ==
    Deanonymize(i, ForeignToken(i, type_marker, version, typed_data))

NextTokens ==
    \/ \E i \in Instances, token \in CraftedTokens : Deanonymize(i, token)
    \/ \E i \in Instances, type_marker \in HeaderMarkers,
          version \in VersionBytes, typed_data \in TypedData :
          DeanonymizeForeign(i, type_marker, version, typed_data)
    \/ Discard

SpecTokens == InitSameKeys /\ [][NextTokens]_vars

(***************************************************************************)
(* anonymize on instances built from other key pairs, and the first two    *)
(* statements of anonymize alone.                                          *)
(***************************************************************************)
\* two primary and two secondary keys; the key sequences of (kg, s9) and
\* of (p2, qv) differ from the first byte on
OtherPrimaryKeys == {PyStr(Str(<<"k", "g">>)), PyStr(Str(<<"p", "2">>))}
OtherSecondaryKeys == {PyStr(Str(<<"s", "9">>)), PyStr(Str(<<"q", "v">>))}

InitOtherKeys ==
    /\ \E pk1 \in OtherPrimaryKeys, sk1 \in OtherSecondaryKeys,
          pk2 \in OtherPrimaryKeys, sk2 \in OtherSecondaryKeys :
          self = <<__init__(pk1, sk1), __init__(pk2, sk2)>>
    /\ call = NoCall
    /\ issued = NoIssue
    /\ frames = NoFrames

\* serialized, data_type = self._serialize_with_type(data) and
\* data_with_type = f"{data_type.value}:{serialized}", as fields of a result
TypedString(ser) ==
    [exc |-> "", stage |-> "",
     value |-> PyStr(<<Ord(ser.data_type), Ord(":")>> \o ser.text),
     serialized |-> ser.text, data_type |-> ser.data_type]

\* anonymize up to data_with_type
Serialize(i, data) ==
    /\ call = NoCall
    /\ Called("_serialize_with_type", i, data, TypedString(_serialize_with_type(data)))
    /\ UNCHANGED <<self, issued, frames>>

NextKeys ==
    \/ \E i \in Instances, data \in Values : Anonymize(i, data)
    \/ \E i \in Instances, data \in Values : Serialize(i, data)
    \/ Discard

SpecKeys == InitOtherKeys /\ [][NextKeys]_vars

(***************************************************************************)
(* Concurrent calls on one instance.  A thread runs anonymize or           *)
(* deanonymize in steps, one step per iteration of the loop over the       *)
(* bytes; the statements before and after the loop touch nothing but       *)
(* local variables and make one step each.  The steps of the threads       *)
(* interleave in any order.                                                *)
(***************************************************************************)
\* the values the threads anonymize: None, an integer, a two-byte
\* character, and a lone surrogate (which str.encode() refuses)
ThreadValues == {PyNone, PyInt(-1), PyStr(<<233>>), PyStr(<<55296>>)}

\* the tokens the threads deanonymize: the tokens of those values under
\* the keys of instance i, and a token with an unknown marker
ThreadTokens(i) ==
    {anonymize(self[i], data).value.val :
        data \in {v \in ThreadValues : anonymize(self[i], v).exc = ""}}
      \cup {_create_token(Ord("X"), Str(<<"0">>))}

\* the frame of a call that has ended with ret
Ended(op, i, arg, ret) == [op |-> op, pc |-> "done", inst |-> i, arg |-> arg, ret |-> ret]

\* the frame of a call at its loop over data, with an empty result
AtLoop(op, i, arg, type_marker, data) ==
    [op |-> op, pc |-> "loop", inst |-> i, arg |-> arg,
     type_marker |-> type_marker, data |-> data, result |-> <<>>]

\* thread t enters anonymize(data) on instance i: the statements before
\* the loop of BitwiseDualKeyAnonymizer.anonymize
BeginAnonymize(t, i, data) ==
    /\ frames[t] = NoFrame
    /\ LET ser == _serialize_with_type(data)
           encoded == encode(TypedString(ser).value.val)
       IN  frames' = [frames EXCEPT ![t] =
               IF encoded.exc # ""
               THEN Ended("anonymize", i, data, Raise(encoded.exc, "encode"))
               ELSE AtLoop("anonymize", i, data, Ord(ser.data_type),
                           <<VersionByte>> \o encoded.bytes)]
    /\ UNCHANGED <<self, call, issued>>

\* thread t enters deanonymize(token) on instance i: the statements before
\* the loop of BitwiseDualKeyAnonymizer.deanonymize
BeginDeanonymize(t, i, token) ==
    /\ frames[t] = NoFrame
    /\ LET parsed == _parse_token(token)
           anonymized_data == _base36_to_bytes(parsed.data)
       IN  frames' = [frames EXCEPT ![t] =
               IF parsed.exc # ""
               THEN Ended("deanonymize", i, PyStr(token),
                          Raise(parsed.exc, "_parse_token"))
               ELSE IF parsed.type_marker \notin DataTypeValues
               THEN Ended("deanonymize", i, PyStr(token),
                          Raise("ValueError", "DataType"))
               ELSE IF anonymized_data.exc # ""
               THEN Ended("deanonymize", i, PyStr(token),
                          Raise(anonymized_data.exc, anonymized_data.stage))
               ELSE AtLoop("deanonymize", i, PyStr(token), parsed.type_marker,
                           anonymized_data.bytes)]
    /\ UNCHANGED <<self, call, issued>>

\* one iteration of the loop of anonymize that consumes the byte of the
\* primary sequence it used
AnonymizeStepConsuming(t) ==
    /\ frames[t].op = "anonymize" /\ frames[t].pc = "loop"
    /\ Len(frames[t].result) < Len(frames[t].data)
    /\ frames' = [frames EXCEPT ![t].result =
           Append(@, EncodeByte(self[frames[t].inst],
                                frames[t].data[Len(@) + 1], Len(@)))]
    /\ self' = [self EXCEPT ![frames[t].inst].primary_sequence = Tail(@) \o <<Head(@)>>]
    /\ UNCHANGED <<call, issued>>

\* one iteration of the loop of anonymize in thread t
AnonymizeStep(t) ==
    /\ frames[t].op = "anonymize" /\ frames[t].pc = "loop"
    /\ Len(frames[t].result) < Len(frames[t].data)
    /\ frames' = [frames EXCEPT ![t].result =
           Append(@, EncodeByte(self[frames[t].inst],
                                frames[t].data[Len(@) + 1], Len(@)))]
    /\ UNCHANGED <<self, call, issued>>

\* one iteration of the loop of deanonymize in thread t
DeanonymizeStep(t) ==
    /\ frames[t].op = "deanonymize" /\ frames[t].pc = "loop"
    /\ Len(frames[t].result) < Len(frames[t].data)
    /\ frames' = [frames EXCEPT ![t].result =
           Append(@, DecodeByte(self[frames[t].inst],
                                frames[t].data[Len(@) + 1], Len(@)))]
    /\ UNCHANGED <<self, call, issued>>

\* the statements after the loop of anonymize, and _create_token
EndAnonymize(t) ==
    /\ frames[t].op = "anonymize" /\ frames[t].pc = "loop"
    /\ Len(frames[t].result) = Len(frames[t].data)
    /\ frames' = [frames EXCEPT ![t] =
           Ended("anonymize", @.inst, @.arg,
                 Return(PyStr(_create_token(@.type_marker,
                                            _bytes_to_base36(@.result)))))]
    /\ UNCHANGED <<self, call, issued>>

\* the statements after the loop of deanonymize, decode() and
\* _deserialize_with_type
EndDeanonymize(t) ==
    /\ frames[t].op = "deanonymize" /\ frames[t].pc = "loop"
    /\ Len(frames[t].result) = Len(frames[t].data)
    /\ frames' = [frames EXCEPT ![t] =
           Ended("deanonymize", @.inst, @.arg,
                 DeanonymizeText(MarkerName(@.type_marker), [payload |-> @.result],
                                 decode(SliceFrom(@.result, 1))))]
    /\ UNCHANGED <<self, call, issued>>

\* the call of thread t returns (or raises) to its caller
ReturnFrom(t) ==
    /\ frames[t].pc = "done"
    /\ frames' = [frames EXCEPT ![t] = NoFrame]
    /\ UNCHANGED <<self, call, issued>>

NextThreads ==
    \/ \E t \in Threads, data \in ThreadValues : BeginAnonymize(t, 1, data)
    \/ \E t \in Threads : \E token \in ThreadTokens(1) : BeginDeanonymize(t, 1, token)
    \/ \E t \in Threads : AnonymizeStep(t)
    \/ \E t \in Threads : DeanonymizeStep(t)
    \/ \E t \in Threads : EndAnonymize(t)
    \/ \E t \in Threads : EndDeanonymize(t)
    \/ \E t \in Threads : ReturnFrom(t)

SpecThreads == InitSameKeys /\ [][NextThreads]_vars

(***************************************************************************)
(* Shuffling/anonymizer.py: anonimizacja and deanonimizacja.               *)
(* A DataFrame is the sequence of its columns, each the sequence of its    *)
(* values, all of one length; a call result carries, next to the returned  *)
(* table, the argument objects dane and klucz as the call leaves them.     *)
(***************************************************************************)
\* len(dane)
RowCount(dane) == IF dane = <<>> THEN 0 ELSE Len(dane[1])

\* np.roll(values, shift): the value at index i moves to index i + shift
roll(values, shift) ==
    [i \in 1..Len(values) |-> values[((i - 1 - shift) % Len(values)) + 1]]

\* the loop over the columns: even columns rolled by even_shift, odd
\* columns by odd_shift (enumerate counts from 0)
RollColumns(dane, even_shift, odd_shift) ==
    [i \in 1..Len(dane) |->
        IF (i - 1) % 2 = 0 THEN roll(dane[i], even_shift)
        ELSE roll(dane[i], odd_shift)]

\* the result of a call on tables: the returned table and the two
\* argument objects after the call
TableResult(value, dane, klucz) ==
    [exc |-> "", stage |-> "", value |-> [type |-> "DataFrame", val |-> value],
     dane |-> dane, klucz |-> klucz]

\* anonimizacja that writes the rolled columns into dane itself
AnonimizacjaInPlace(dane, klucz) ==
    LET n == RowCount(dane)
    IN  IF n = 0 THEN TableResult(dane, dane, klucz)
        ELSE TableResult(RollColumns(dane, -(klucz[1] % n), klucz[2] % n),
                         RollColumns(dane, -(klucz[1] % n), klucz[2] % n), klucz)

\* Shuffling.anonymizer.anonimizacja (klucz[0], klucz[1] are klucz[1],
\* klucz[2] here)
anonimizacja(dane, klucz) ==
    LET n == RowCount(dane)
    IN  IF n = 0 THEN TableResult(dane, dane, klucz)
        ELSE TableResult(RollColumns(dane, -(klucz[1] % n), klucz[2] % n),
                         dane, klucz)

\* deanonimizacja that rolls the odd columns the way anonimizacja does
DeanonimizacjaSameDirection(dane, klucz) ==
    LET n == RowCount(dane)
    IN  IF n = 0 THEN TableResult(dane, dane, klucz)
        ELSE TableResult(RollColumns(dane, klucz[1] % n, klucz[2] % n),
                         dane, klucz)

\* Shuffling.anonymizer.deanonimizacja
deanonimizacja(dane, klucz) ==
    LET n == RowCount(dane)
    IN  IF n = 0 THEN TableResult(dane, dane, klucz)
        ELSE TableResult(RollColumns(dane, klucz[1] % n, -(klucz[2] % n)),
                         dane, klucz)

\* the table of columns x rows cells, all different
TableOf(columns, rows) ==
    [c \in 1..columns |-> [r \in 1..rows |-> 10 * c + r]]

\* tables of 0..MaxColumns columns and 0..MaxRows rows
Tables == {TableOf(columns, rows) : columns \in 0..MaxColumns, rows \in 0..MaxRows}

\* keys of two integers, negative ones and ones beyond the row count
\* included
ShuffleKeys == {<<a, b>> : a \in (-MaxShift)..MaxShift, b \in (-MaxShift)..MaxShift}

\* no anonymizer instance exists
InitTables ==
    /\ self = <<>>
    /\ call = NoCall
    /\ issued = NoIssue
    /\ frames = NoFrames

\* a call on tables, kept in issued when it is the anonymizing call
TableCall(op, dane, klucz, result, keep) ==
    /\ call' = [op |-> op, inst |-> 0, arg |-> PyTuple(<<dane, klucz>>),
                result |-> result]
    /\ issued' = IF keep THEN [live |-> TRUE, arg |-> PyTuple(<<dane, klucz>>),
                               result |-> result]
                 ELSE issued
    /\ UNCHANGED <<self, frames>>

\* anon = anonimizacja(dane, klucz)
ShuffleAnonymize(dane, klucz) ==
    /\ call = NoCall
    /\ TableCall("anonimizacja", dane, klucz, anonimizacja(dane, klucz), TRUE)

\* deanonimizacja(anon, klucz) with the key object of the anonymizing call
ShuffleDeanonymize ==
    /\ call.op = "anonimizacja"
    /\ TableCall("deanonimizacja", call.result.value.val, call.result.klucz,
                 deanonimizacja(call.result.value.val, call.result.klucz), FALSE)

\* the caller drops the tables
DiscardTables ==
    /\ call # NoCall
    /\ call' = NoCall
    /\ issued' = NoIssue
    /\ UNCHANGED <<self, frames>>

NextShuffle ==
    \/ \E dane \in Tables, klucz \in ShuffleKeys : ShuffleAnonymize(dane, klucz)
    \/ ShuffleDeanonymize
    \/ DiscardTables

SpecShuffle == InitTables /\ [][NextShuffle]_vars

(***************************************************************************)
(* Shuffling/current_anonymizer.py: anonimizacja and deanonimizacja, here  *)
(* current_anonimizacja and current_deanonimizacja.  The table is the      *)
(* record of its columns name and ssn; both functions work on the table    *)
(* and on the key list they are given, and return that table.              *)
(***************************************************************************)
\* a missing cell (None or NaN)
Missing == <<-1>>

\* text.split(" ", 1)
SplitOnce(text) ==
    IF \E i \in 1..Len(text) : text[i] = 32
    THEN LET i == CHOOSE j \in 1..Len(text) :
                      text[j] = 32 /\ \A h \in 1..(j - 1) : text[h] # 32
         IN  <<SubSeq(text, 1, i - 1), SubSeq(text, i + 1, Len(text))>>
    ELSE <<text>>

\* column k of column.str.split(" ", n=1, expand=True): None where the row
\* has no part k, NaN where the row is missing
SplitColumn(column, k) ==
    [r \in 1..Len(column) |->
        IF column[r] = Missing \/ Len(SplitOnce(column[r])) < k THEN Missing
        ELSE SplitOnce(column[r])[k]]

\* the number of columns of that frame
SplitWidth(column) ==
    IF \E r \in 1..Len(column) :
          column[r] # Missing /\ Len(SplitOnce(column[r])) = 2
    THEN 2 ELSE 1

\* column.str[:stop] for stop >= 0 (from_start) and column.str[stop:]
StrSlice(column, stop, from_start) ==
    [r \in 1..Len(column) |->
        IF column[r] = Missing THEN Missing
        ELSE IF from_start
        THEN SubSeq(column[r], 1, IF stop < Len(column[r]) THEN stop ELSE Len(column[r]))
        ELSE SubSeq(column[r], stop + 1, Len(column[r]))]

\* the index a slice bound stands for in a column of n rows
SliceIndex(bound, n) ==
    IF bound < 0 THEN (IF n + bound < 0 THEN 0 ELSE n + bound)
    ELSE IF bound > n THEN n ELSE bound

\* pd.concat([column.iloc[bound:], column.iloc[:bound]]).reset_index(drop=True)
ConcatSlices(column, bound) ==
    SubSeq(column, SliceIndex(bound, Len(column)) + 1, Len(column))
        \o SubSeq(column, 1, SliceIndex(bound, Len(column)))

\* left + right of two columns of str: missing where either is missing
AddColumns(left, right) ==
    [r \in 1..Len(left) |->
        IF left[r] = Missing \/ right[r] = Missing THEN Missing
        ELSE left[r] \o right[r]]

\* a call that raised: the table and the key as the call leaves them
TableRaise(exc, dane, klucz) ==
    [exc |-> exc, stage |-> "", value |-> NoValue, dane |-> dane, klucz |-> klucz]

\* the statements after the two assignments to klucz: name and ssn_1 are
\* cut at name_bound, last name and ssn_2 at last_bound
SplitAndShift(dane, klucz, name_bound, last_bound) ==
    IF SplitWidth(dane.name) # 2 THEN TableRaise("ValueError", dane, klucz)
    ELSE LET name == ConcatSlices(SplitColumn(dane.name, 1), name_bound)
             last_name == ConcatSlices(SplitColumn(dane.name, 2), last_bound)
             ssn_1 == ConcatSlices(StrSlice(dane.ssn, 5, TRUE), name_bound)
             ssn_2 == ConcatSlices(StrSlice(dane.ssn, 5, FALSE), last_bound)
             space == [r \in 1..Len(name) |-> <<32>>]
             shifted == [name |-> AddColumns(AddColumns(name, space), last_name),
                         ssn  |-> AddColumns(ssn_1, ssn_2)]
         IN  TableResult(shifted, shifted, klucz)

\* current_anonymizer.anonimizacja
current_anonimizacja(dane, klucz) ==
    LET n == Len(dane.name)
    IN  IF n = 0 THEN TableRaise("ZeroDivisionError", dane, klucz)
        ELSE SplitAndShift(dane, <<klucz[1] % n, klucz[2] % n>>,
                           klucz[1] % n, -(klucz[2] % n))

\* current_anonymizer.deanonimizacja
current_deanonimizacja(dane, klucz) ==
    LET n == Len(dane.name)
    IN  IF n = 0 THEN TableRaise("ZeroDivisionError", dane, klucz)
        ELSE SplitAndShift(dane, <<klucz[1] % n, klucz[2] % n>>,
                           -(klucz[1] % n), klucz[2] % n)

\* rows of a name and an ssn: names of two and of three words, a name of
\* one word, and an ssn of fewer than five characters
PersonRows ==
    { <<Str(<<"a", " ", "b">>), Str(<<"1", "2", "3", "4", "5", "-", "6">>)>>,
      <<Str(<<"c", " ", "d", " ", "e">>), Str(<<"9", "8", "7", "6", "5", "-", "4">>)>>,
      <<Str(<<"f">>), Str(<<"5", "5", "5", "5", "5", "-", "5">>)>>,
      <<Str(<<"g", " ", "h">>), Str(<<"1", "2", "3">>)>> }

RECURSIVE RowsUpTo(_)
RowsUpTo(n) ==
    IF n = 0 THEN {<<>>}
    ELSE {<<>>} \cup {Append(rows, row) : rows \in RowsUpTo(n - 1), row \in PersonRows}

\* pd.DataFrame of the rows
PersonTables ==
    {[name |-> [r \in 1..Len(rows) |-> rows[r][1]],
      ssn  |-> [r \in 1..Len(rows) |-> rows[r][2]]] : rows \in RowsUpTo(MaxRows)}

\* anon = anonimizacja(df.copy(), klucz)
SplitAnonymize(dane, klucz) ==
    /\ call = NoCall
    /\ TableCall("current_anonimizacja", dane, klucz,
                 current_anonimizacja(dane, klucz), TRUE)

\* deanonimizacja(anon, klucz), with the key list as anonimizacja left it
SplitDeanonymize ==
    /\ call.op = "current_anonimizacja"
    /\ call.result.exc = ""
    /\ TableCall("current_deanonimizacja", call.result.value.val, call.result.klucz,
                 current_deanonimizacja(call.result.value.val, call.result.klucz),
                 FALSE)

NextSplit ==
    \/ \E dane \in PersonTables, klucz \in ShuffleKeys : SplitAnonymize(dane, klucz)
    \/ SplitDeanonymize
    \/ DiscardTables

SpecSplit == InitTables /\ [][NextSplit]_vars

(***************************************************************************)
(* DeterministicAnonymizer/anonymizer.py: the transformation of the cells  *)
(* of a column configured as 'text'.                                       *)
(***************************************************************************)
\* DeterministicAnonymizer.__init__ (keys in the model are ASCII)
DeterministicAnonymizer(key) == [key |-> key]

\* int(h.hexdigest(), 16) % (2**32): the last four bytes of the digest, as
\* the two 16-bit halves <<high, low>> of the seed
_generate_seed(anonymizer, field_name) ==
    LET h == digest("sha256", anonymizer.key \o field_name)
    IN  <<h[29] * 256 + h[30], h[31] * 256 + h[32]>>

\* str(seed) by long division of high * 65536 + low by 10
RECURSIVE SeedToStr(_, _)
SeedToStr(high, low) ==
    IF high = 0 THEN NatToStr(low)
    ELSE Append(SeedToStr(high \div 10, ((high % 10) * 65536 + low) \div 10),
                48 + (((high % 10) * 65536 + low) % 10))

\* int(h.hexdigest(), 16) % CHAR_RANGE of the first n bytes of a digest
RECURSIVE DigestMod(_, _)
DigestMod(h, n) ==
    IF n = 0 THEN 0 ELSE (DigestMod(h, n - 1) * 256 + h[n]) % CHAR_RANGE

\* offset for the character at index i
Offset(seed, i) ==
    DigestMod(digest("sha256", SeedToStr(seed[1], seed[2]) \o Str(<<"_">>) \o NatToStr(i)),
              Sha256DigestSize)

\* DeterministicAnonymizer._text_transform
_text_transform(anonymizer, text, field_name, reverse) ==
    IF text.type # "str" THEN text
    ELSE PyStr([i \in 1..Len(text.val) |->
            LET offset == Offset(_generate_seed(anonymizer, field_name), i - 1)
                char_code == text.val[i]
            IN  IF ~reverse
                THEN IF CHAR_START <= char_code /\ char_code <= 126
                     THEN ((char_code - CHAR_START + offset) % CHAR_RANGE) + CHAR_START
                     ELSE (offset % CHAR_RANGE) + CHAR_START
                ELSE IF CHAR_START <= char_code /\ char_code <= 126
                THEN ((char_code - CHAR_START - offset + CHAR_RANGE) % CHAR_RANGE)
                        + CHAR_START
                ELSE char_code])

\* keys of DeterministicAnonymizer and names of columns configured as text
DeterministicKeys == {Str(<<"K", "1">>), Str(<<"K", "2">>)}
TextFields == {Str(<<"e", "m", "a", "i", "l">>), Str(<<"z", "i", "p">>)}

\* cells of a text column: strings over the first, a middle and the last
\* character of the readable range, the space and a character beyond
\* ASCII; and a cell that is no string
RECURSIVE CellTexts(_)
CellTexts(n) ==
    IF n = 0 THEN {<<>>}
    ELSE {<<>>} \cup {Append(t, c) : t \in CellTexts(n - 1), c \in {33, 65, 126, 32, 233}}

Cells == {PyStr(t) : t \in CellTexts(MaxCellLen)} \cup {PyNone}

InitDeterministic ==
    /\ \E key \in DeterministicKeys : self = <<DeterministicAnonymizer(key)>>
    /\ call = NoCall
    /\ issued = NoIssue
    /\ frames = NoFrames

\* a call of _text_transform on a cell, kept in issued when it is the
\* anonymizing call
CellCall(op, x, field_name, reverse, keep) ==
    /\ call' = [op |-> op, inst |-> 1, arg |-> PyTuple(<<x, field_name>>),
                result |-> Return(_text_transform(self[1], x, field_name, reverse))]
    /\ issued' = IF keep THEN [live |-> TRUE, arg |-> PyTuple(<<x, field_name>>)]
                 ELSE issued
    /\ UNCHANGED <<self, frames>>

\* anonymize: lambda x: self._text_transform(x, field_name) on a cell
AnonymizeCell(x, field_name) ==
    /\ call = NoCall
    /\ CellCall("anonymize_cell", x, field_name, FALSE, TRUE)

\* deanonymize: lambda x: self._text_transform(x, field_name, reverse=True)
\* on the anonymized cell
DeanonymizeCell ==
    /\ call.op = "anonymize_cell"
    /\ CellCall("deanonymize_cell", call.result.value, call.arg.val[2], TRUE, FALSE)

NextDeterministic ==
    \/ \E x \in Cells, field_name \in TextFields : AnonymizeCell(x, field_name)
    \/ DeanonymizeCell
    \/ DiscardTables

SpecDeterministic == InitDeterministic /\ [][NextDeterministic]_vars

(***************************************************************************)
(* SpecCodec: the two static methods of the base-36 codec, applied to byte *)
(* sequences of up to MaxCodecLen bytes: _bytes_to_base36 on a sequence,   *)
(* then _base36_to_bytes on the string it returned.                        *)
(***************************************************************************)
\* byte values of the sequences: zero, one, the two values around the base
\* and the largest byte
CodecBytes == {0, 1, 35, 36, 255}

RECURSIVE ByteSeqs(_)
ByteSeqs(n) ==
    IF n = 0 THEN {<<>>}
    ELSE ByteSeqs(n - 1) \cup
         {<<b>> \o s : b \in CodecBytes, s \in {x \in ByteSeqs(n - 1) : Len(x) = n - 1}}

\* a call of a codec method, kept in issued when it is the encoding call
CodecCall(op, arg, result, keep) ==
    /\ call' = [op |-> op, inst |-> 0, arg |-> arg, result |-> result]
    /\ issued' = IF keep THEN [live |-> TRUE, arg |-> arg, result |-> result]
                 ELSE issued
    /\ UNCHANGED <<self, frames>>

\* base36_str = BitwiseDualKeyAnonymizer._bytes_to_base36(data)
BytesToBase36(data) ==
    /\ call = NoCall
    /\ CodecCall("_bytes_to_base36", PyBytes(data),
                 Return(PyStr(_bytes_to_base36(data))), TRUE)

\* the result of _base36_to_bytes as the result of a call
DecodedBytes(decoded) ==
    IF decoded.exc # "" THEN Raise(decoded.exc, decoded.stage)
    ELSE Return(PyBytes(decoded.bytes))

\* BitwiseDualKeyAnonymizer._base36_to_bytes(base36_str) on the string the
\* encoding call returned
Base36ToBytes ==
    /\ call.op = "_bytes_to_base36"
    /\ CodecCall("_base36_to_bytes", call.result.value,
                 DecodedBytes(_base36_to_bytes(call.result.value.val)), FALSE)

NextCodec ==
    \/ \E data \in ByteSeqs(MaxCodecLen) : BytesToBase36(data)
    \/ Base36ToBytes
    \/ DiscardTables

SpecCodec == InitTables /\ [][NextCodec]_vars

(***************************************************************************)
(* SpecSequence: _generate_sequence run one iteration of its while loop at *)
(* a time, for keys, both hash functions and lengths up to MaxSeqLen.  The  *)
(* frame holds the locals result and current_hash, and hashes, the number  *)
(* of times hash_func has been invoked by the call.                        *)
(***************************************************************************)
\* the keys a sequence is generated from: the empty key, a one-byte and a
\* two-byte key
SequenceKeys == {<<>>, <<107>>, <<107, 48>>}

HashFunctions == {"sha256", "sha512"}

\* the lengths asked for: up to MaxSeqLen, those at, just below and just
\* above a multiple of the smaller digest size
SequenceLengths ==
    {length \in 0..MaxSeqLen :
        length % Sha256DigestSize \in {0, 1, Sha256DigestSize - 1}}

\* the thread that runs the calls of SpecSequence
Generator == 1

\* result = bytearray(); current_hash = key
BeginGenerate(t, key, hash_func, length) ==
    /\ call = NoCall
    /\ frames[t] = NoFrame
    /\ frames' = [frames EXCEPT ![t] =
                    [op |-> "_generate_sequence", pc |-> "loop", key |-> key,
                     hash_func |-> hash_func, length |-> length,
                     result |-> <<>>, current_hash |-> key, hashes |-> 0]]
    /\ UNCHANGED <<self, call, issued>>

\* while len(result) < length: a test that also passes at len(result) ==
\* length
WhileAtMost(frame) == Len(frame.result) <= frame.length

\* while len(result) < length
WhileCondition(frame) == Len(frame.result) < frame.length

\* one iteration: current_hash = hash_func(current_hash + key).digest();
\* result.extend(current_hash)
GenerateStep(t) ==
    /\ frames[t].pc = "loop"
    /\ WhileCondition(frames[t])
    /\ LET next_hash == digest(frames[t].hash_func,
                               frames[t].current_hash \o frames[t].key)
       IN  frames' = [frames EXCEPT ![t].current_hash = next_hash,
                                    ![t].result = @ \o next_hash,
                                    ![t].hashes = @ + 1]
    /\ UNCHANGED <<self, call, issued>>

\* return bytes(result[:length]); the caller may keep the sequence of an
\* earlier call
EndGenerate(t) ==
    /\ frames[t].pc = "loop"
    /\ ~WhileCondition(frames[t])
    /\ LET arg == [type |-> "tuple",
                   val |-> [key |-> frames[t].key,
                            hash_func |-> frames[t].hash_func,
                            length |-> frames[t].length]]
           result == [exc |-> "", stage |-> "",
                      value |-> PyBytes(SubSeq(frames[t].result, 1, frames[t].length)),
                      hashes |-> frames[t].hashes]
       IN  /\ Called("_generate_sequence", 0, arg, result)
           /\ \E remember \in BOOLEAN :
                 issued' = IF remember
                           THEN [live |-> TRUE, arg |-> arg, result |-> result]
                           ELSE issued
    /\ frames' = [frames EXCEPT ![t] = NoFrame]
    /\ UNCHANGED self

\* the caller drops the sequence just returned
DiscardSequence ==
    /\ call # NoCall
    /\ call' = NoCall
    /\ UNCHANGED <<self, issued, frames>>

NextSequence ==
    \/ \E key \in SequenceKeys, hash_func \in HashFunctions, length \in SequenceLengths :
          BeginGenerate(Generator, key, hash_func, length)
    \/ GenerateStep(Generator)
    \/ EndGenerate(Generator)
    \/ DiscardSequence

SpecSequence == InitTables /\ [][NextSequence]_vars

(***************************************************************************)
(* SpecPeriod: the two forward byte transformations of the loop of         *)
(* anonymize applied to a byte at a position, and then to the same byte at *)
(* the position len(self.primary_sequence) further on, up to MaxPeriods    *)
(* times.                                                                  *)
(***************************************************************************)
\* _positional_bit_scramble(_bitwise_transform_byte(byte, pos), pos) for the
\* byte of the call just made, one length of the key sequences further on
TransformByteLater ==
    /\ call.op \in {"transform_byte", "transform_byte_later"}
    /\ call.arg.val[2] < MaxPeriods * DefaultLength
    /\ Called("transform_byte_later", call.inst,
              PyTuple(<<call.arg.val[1], call.arg.val[2] + DefaultLength>>),
              Return(PyInt(EncodeByte(self[call.inst], call.arg.val[1],
                                      call.arg.val[2] + DefaultLength))))
    /\ UNCHANGED <<self, issued, frames>>

NextPeriod ==
    \/ \E i \in Instances, byte \in Bytes, pos \in Positions :
          TransformByte(i, byte, pos)
    \/ TransformByteLater
    \/ Discard

SpecPeriod == InitSameKeys /\ [][NextPeriod]_vars

(***************************************************************************)
(* Properties of anonymize and deanonymize on issued tokens (Spec).        *)
(***************************************************************************)
\* instance i was built from the keys of the instance that issued the token
SameKeys(i) ==
    /\ self[i].primary_key = issued.primary_key
    /\ self[i].secondary_key = issued.secondary_key

\* the call is deanonymize of the issued token
DeanonymizedIssued ==
    /\ call.op = "deanonymize"
    /\ issued.live
    /\ call.arg = issued.result.value

\* C1: for every key pair and every supported value v, deanonymize of the
\* token that anonymize returned for v, on an instance with the same keys,
\* returns a value equal to v and of the type of v.
RoundTrip ==
    (DeanonymizedIssued /\ SameKeys(call.inst))
        => (call.result.exc = "" /\ call.result.value = issued.arg)

\* C3: anonymize(v) returns the token that an earlier anonymize(v) returned
\* on the same instance or on another instance built from the same keys,
\* whatever calls were made in between.
Determinism ==
    (call.op = "anonymize" /\ issued.live /\ call.arg = issued.arg
        /\ SameKeys(call.inst))
        => call.result = issued.result

\* a second instance with the keys of the first returns the token again
DeterminismWitness ==
    /\ call.op = "anonymize"
    /\ issued.live
    /\ call.inst # issued.inst
    /\ SameKeys(call.inst)
    /\ call.arg = issued.arg
    /\ call.arg.type = "float"
    /\ call.result.exc = ""

Base36Characters == (48..57) \cup (65..90)

\* token is "TKN_V1_" + M + PAYLOAD for the marker M of type and a
\* non-empty PAYLOAD of base-36 characters
IsTokenOf(token, type) ==
    /\ Len(token) >= 9
    /\ SubSeq(token, 1, 7) = Str(<<"T", "K", "N", "_", "V", "1", "_">>)
    /\ token[8] \in DataTypeValues
    /\ DataType[MarkerName(token[8])] = type
    /\ \A i \in 9..Len(token) : token[i] \in Base36Characters
    /\ Cardinality({i \in 1..Len(token) : token[i] = Ord("_")}) = 2

\* C4: every token anonymize returns is "TKN_V1_" + M + PAYLOAD, M the
\* marker of the type of the value and PAYLOAD a non-empty string of the
\* characters 0-9 and A-Z, so that the token has exactly two underscores.
TokenShape ==
    (call.op = "anonymize" /\ call.result.exc = "")
        => IsTokenOf(call.result.value.val, call.arg.type)

\* a token for a Decimal, with a letter in its payload
TokenShapeWitness ==
    /\ call.op = "anonymize"
    /\ call.result.exc = ""
    /\ call.arg.type = "Decimal"
    /\ \E i \in 9..Len(call.result.value.val) : call.result.value.val[i] \in 65..90

\* the call is deanonymize of the token issued for a string, on an instance
\* built from another key pair
DeanonymizedUnderOtherKeys ==
    /\ DeanonymizedIssued
    /\ issued.arg.type = "str"
    /\ ~SameKeys(call.inst)

\* C10: deanonymize of the token of a string v under a different key pair
\* completes without an error and returns a string different from v.
WrongKeysReturnAnotherString ==
    DeanonymizedUnderOtherKeys
        => /\ call.result.exc = ""
           /\ call.result.value.type = "str"
           /\ call.result.value # issued.arg

\* C10, as amended: deanonymize of the token of a string under a different
\* key pair either raises UnicodeDecodeError or returns a string.
WrongKeysDecodeErrorOrString ==
    DeanonymizedUnderOtherKeys
        => \/ call.result.exc = "UnicodeDecodeError"
           \/ (call.result.exc = "" /\ call.result.value.type = "str")

\* under other keys the decoded bytes were not UTF-8
WrongKeysWitness ==
    /\ DeanonymizedUnderOtherKeys
    /\ call.result.exc = "UnicodeDecodeError"
    /\ call.result.stage = "decode"

(***************************************************************************)
(* Properties of the two byte transformations (SpecByte).                  *)
(***************************************************************************)
\* C2: for every byte b, position p and pair of key sequences, the reverse
\* scramble followed by the reverse three-layer transform, applied at p to
\* what the three-layer transform followed by the scramble made of b at p,
\* returns b.
ByteRoundTrip ==
    [][(call.op = "transform_byte" /\ call'.op = "inverse_byte")
          => call'.result.value.val = <<call.arg.val[1]>>]_vars

\* a byte that the forward calls changed has come back, at an odd position
\* with a rotation, past the end of the key sequences
ByteRoundTripWitness ==
    /\ call.op = "inverse_byte"
    /\ call.arg.val[2] = DefaultLength + 1
    /\ call.arg.val[1] # call.result.value.val[1]
    /\ call.result.value.val[1] = 255

(***************************************************************************)
(* Properties of deanonymize on hand-made and foreign tokens (SpecTokens). *)
(***************************************************************************)
MarkerCharacters ==
    {Ord("S"), Ord("I"), Ord("F"), Ord("B"), Ord("D"), Ord("N")}

\* token does not split on "_" into three parts, or its first part is not
\* TKN, or its second part is not V1, or its third part has nothing after
\* the marker
Malformed(token) ==
    \/ Len(split(token, Ord("_"))) # 3
    \/ split(token, Ord("_"))[1] # Str(<<"T", "K", "N">>)
    \/ split(token, Ord("_"))[2] # Str(<<"V", "1">>)
    \/ Len(split(token, Ord("_"))[3]) < 2

\* C5: deanonymize fails with an error and returns no value for every
\* token that does not split on "_" into exactly three parts, whose first
\* part is not TKN, whose second part is not V1, or whose third part has no
\* character after the type marker.
MalformedRejected ==
    (call.op = "deanonymize" /\ Malformed(call.arg.val))
        => (call.result.exc # "" /\ call.result.value = NoValue)

\* TKN_V1_S passes _parse_token and fails when its empty payload is decoded
MalformedRejectedWitness ==
    /\ call.op = "deanonymize"
    /\ call.arg.val = Str(<<"T", "K", "N", "_", "V", "1", "_", "S">>)
    /\ call.result.exc = "ValueError"
    /\ call.result.stage = "_from_base36"

\* token is "TKN_V1_" + M + PAYLOAD
WellFormed(token) ==
    /\ Len(token) >= 8
    /\ SubSeq(token, 1, 7) = Str(<<"T", "K", "N", "_", "V", "1", "_">>)
    /\ \A i \in 8..Len(token) : token[i] # Ord("_")

\* the call got as far as the inverse transformation of the payload
InverseTransformed ==
    /\ call.op = "deanonymize"
    /\ call.result.stage \in {"", "decode", "_deserialize_with_type"}

\* C6: deanonymize fails and returns no value whenever the first byte of
\* the inverse-transformed payload is not 1, the empty payload included.
VersionByteChecked ==
    (InverseTransformed
        /\ (call.result.payload = <<>> \/ call.result.payload[1] # 1))
        => (call.result.exc # "" /\ call.result.value = NoValue)

\* C7: deanonymize fails with a ValueError for every token "TKN_V1_" + M +
\* PAYLOAD whose marker M is none of S, I, F, B, D, N, whatever PAYLOAD is,
\* and it does so before the payload is decoded from base 36 or
\* inverse-transformed.
UnknownMarkerRejected ==
    (call.op = "deanonymize" /\ WellFormed(call.arg.val)
        /\ call.arg.val[8] \notin MarkerCharacters)
        => /\ call.result.exc = "ValueError"
           /\ call.result.stage = "DataType"
           /\ call.result.payload = <<>>
           /\ call.result.typed_data = <<>>

\* TKN_V1_X-Z: the payload, a negative number, is never converted to bytes
UnknownMarkerRejectedWitness ==
    /\ call.op = "deanonymize"
    /\ call.arg.val = Str(<<"T", "K", "N", "_", "V", "1", "_", "X", "-", "Z">>)
    /\ call.result.exc = "ValueError"
    /\ call.result.stage = "DataType"

\* the call got as far as the text decoded from the payload
TextDecoded ==
    /\ call.op = "deanonymize"
    /\ call.result.stage \in {"", "_deserialize_with_type"}

\* the part of typed_data before its first ":" is one of the six markers
EmbeddedMarkerKnown(typed_data) ==
    /\ Len(split(typed_data, Ord(":"))[1]) = 1
    /\ split(typed_data, Ord(":"))[1][1] \in MarkerCharacters

\* C8: deanonymize splits the decoded text at its first ":" and fails
\* whenever the marker before it is none of S, I, F, B, D, N, whatever the
\* marker in the header of the token is (stated for the payloads that
\* start with the version byte 1).
EmbeddedMarkerChecked ==
    (TextDecoded
        /\ call.result.payload # <<>> /\ call.result.payload[1] = 1
        /\ ~EmbeddedMarkerKnown(call.result.typed_data))
        => call.result.exc # ""

\* C9: deanonymize fails and returns no value for every token "TKN_V1_" +
\* M + PAYLOAD with M one of the six markers and a PAYLOAD that has a
\* character outside 0-9 and A-Z (the claim names the error, a format
\* error; the formula asks for any).
InvalidPayloadRejected ==
    (call.op = "deanonymize" /\ WellFormed(call.arg.val)
        /\ call.arg.val[8] \in MarkerCharacters
        /\ \E i \in 9..Len(call.arg.val) : call.arg.val[i] \notin Base36Characters)
        => (call.result.exc # "" /\ call.result.value = NoValue)

(***************************************************************************)
(* Properties of anonymize under several key pairs, and of the typed       *)
(* serialisation (SpecKeys).                                               *)
(***************************************************************************)
\* the bytes of data_with_type for data
TypedBytes(data) ==
    encode(TypedString(_serialize_with_type(data)).value.val).bytes

\* what the two key sequences of inst contribute to the byte transformed at
\* position pos: ror(primary_mask, pos % 8) ^ ((secondary_mask + pos) & 0xFF)
CombinedMask(inst, pos) ==
    Xor(RotateRight(inst.primary_sequence[(pos % Len(inst.primary_sequence)) + 1],
                    pos % 8),
        (inst.secondary_sequence[(pos % Len(inst.secondary_sequence)) + 1] + pos) % 256)

\* the call is anonymize of the value of the issued token, on the other
\* instance
AnonymizedOnOtherInstance ==
    /\ call.op = "anonymize"
    /\ issued.live
    /\ call.inst # issued.inst
    /\ call.arg = issued.arg
    /\ call.result.exc = ""

\* the two instances were built from two different pairs of key sequences
DistinctKeystreams ==
    \/ self[1].primary_sequence # self[2].primary_sequence
    \/ self[1].secondary_sequence # self[2].secondary_sequence

\* C11: for every value, the tokens that anonymize returns under two
\* distinct key pairs (two distinct pairs of key sequences) are different.
KeySensitivity ==
    (AnonymizedOnOtherInstance /\ DistinctKeystreams)
        => call.result.value # issued.result.value

\* C11, as amended: the tokens of a value under two key pairs are different
\* exactly when the combined masks of the two pairs of key sequences differ
\* at a position below the number of transformed bytes (the version byte
\* and the bytes of the typed string).
KeySensitivityUpToMasks ==
    AnonymizedOnOtherInstance
        => ((call.result.value # issued.result.value)
              <=> \E pos \in 0..Len(TypedBytes(call.arg)) :
                     CombinedMask(self[1], pos) # CombinedMask(self[2], pos))

\* two different pairs of key sequences returned two tokens for an integer
KeySensitivityWitness ==
    /\ AnonymizedOnOtherInstance
    /\ DistinctKeystreams
    /\ call.arg.type = "int"
    /\ call.result.value # issued.result.value

\* the call is _serialize_with_type of a value of the given type
Serialized(type) ==
    /\ call.op = "_serialize_with_type"
    /\ call.arg.type = type

\* the call is anonymize of the integer 1 (0) on an instance with the keys
\* of the token issued for True (False)
AnonymizedIntOfIssuedBool ==
    /\ call.op = "anonymize"
    /\ issued.live
    /\ SameKeys(call.inst)
    /\ issued.arg.type = "bool"
    /\ call.arg = PyInt(issued.arg.val[1])

\* C12: serializing True or False gives the marker B, never I, and the text
\* "1" or "0"; serializing an integer gives the marker I; and under any key
\* pair the token of True and the token of the integer 1 (of False and of
\* 0) differ in the marker of the header and in the payload.
BoolBeforeInt ==
    /\ Serialized("bool")
          => /\ call.result.data_type = "B"
             /\ call.result.serialized
                  = (IF call.arg = PyBool(TRUE) THEN Str(<<"1">>) ELSE Str(<<"0">>))
    /\ Serialized("int") => call.result.data_type = "I"
    /\ AnonymizedIntOfIssuedBool
          => /\ call.result.value.val[8] = Ord("I")
             /\ issued.result.value.val[8] = Ord("B")
             /\ SliceFrom(call.result.value.val, 8)
                  # SliceFrom(issued.result.value.val, 8)

\* the token of the integer 1 after the token of True, under the same keys
BoolBeforeIntWitness ==
    /\ AnonymizedIntOfIssuedBool
    /\ call.arg = PyInt(1)
    /\ call.result.exc = ""

\* C13: serializing None gives the marker N and an empty text, so that the
\* typed string of None is "N:".
NoneSerializedAsEmpty ==
    Serialized("NoneType")
        => /\ call.result.data_type = "N"
           /\ call.result.serialized = <<>>
           /\ call.result.value = PyStr(Str(<<"N", ":">>))

\* C13, as amended: serializing None gives the marker N and the text
\* "None", so that the typed string of None is "N:None".
NoneSerializedAsNone ==
    Serialized("NoneType")
        => /\ call.result.data_type = "N"
           /\ call.result.serialized = Str(<<"N", "o", "n", "e">>)
           /\ call.result.value = PyStr(Str(<<"N", ":", "N", "o", "n", "e">>))

\* None has been serialized
NoneSerializedWitness ==
    /\ Serialized("NoneType")
    /\ call.arg = PyNone
    /\ call.result.exc = ""

(***************************************************************************)
(* Properties of concurrent calls on one instance (SpecThreads).           *)
(***************************************************************************)
\* what the call of frame returns when it runs alone on the instance
RunAlone(frame) ==
    IF frame.op = "anonymize" THEN anonymize(self[frame.inst], frame.arg)
    ELSE deanonymize(self[frame.inst], frame.arg.val)

\* C14: under any interleaving of concurrent anonymize and deanonymize
\* calls on one instance, no step changes the two keys or the two key
\* sequences, and every call ends with the result it has when run alone.
ThreadSafety ==
    [][/\ self' = self
       /\ \A t \in Threads :
             frames'[t].pc = "done" => frames'[t].ret = RunAlone(frames'[t])]_vars

\* an anonymize call has ended with a token while the other thread is in
\* the loop of deanonymize, some bytes done and some to do
ThreadSafetyWitness ==
    /\ frames[1].op = "anonymize" /\ frames[1].pc = "done"
    /\ frames[1].ret.exc = ""
    /\ frames[2].op = "deanonymize" /\ frames[2].pc = "loop"
    /\ Len(frames[2].result) > 0
    /\ Len(frames[2].result) < Len(frames[2].data)

(***************************************************************************)
(* Properties of the column shuffle (SpecShuffle).                         *)
(***************************************************************************)
\* the table anonimizacja has to return for dane: in even columns the
\* value of row r + klucz[0] mod n at row r, in odd columns the value of
\* row r - klucz[1] mod n
Shuffled(dane, klucz) ==
    [c \in 1..Len(dane) |-> [r \in 1..Len(dane[c]) |->
        IF c % 2 = 1
        THEN dane[c][((r - 1 + (klucz[1] % Len(dane[c]))) % Len(dane[c])) + 1]
        ELSE dane[c][((r - 1 + Len(dane[c]) - (klucz[2] % Len(dane[c])))
                        % Len(dane[c])) + 1]]]

\* C15: for every table of n >= 0 rows and every key of two integers,
\* anonimizacja rotates the even columns left by klucz[0] mod n and the odd
\* columns right by klucz[1] mod n, deanonimizacja of its result with the
\* key returns the table, and neither call changes its table or the key.
ShuffleRoundTrip ==
    /\ call.op = "anonimizacja"
          => /\ call.result.value.val = Shuffled(call.arg.val[1], call.arg.val[2])
             /\ call.result.dane = call.arg.val[1]
             /\ call.result.klucz = call.arg.val[2]
    /\ call.op = "deanonimizacja"
          => /\ call.result.value.val = issued.arg.val[1]
             /\ call.result.dane = call.arg.val[1]
             /\ call.result.klucz = call.arg.val[2]

\* a table of three columns has come back after two rotations that moved
\* its rows, under a negative shift and a shift beyond the row count
ShuffleRoundTripWitness ==
    /\ call.op = "deanonimizacja"
    /\ Len(call.arg.val[1]) = 3
    /\ call.arg.val[2][1] < 0
    /\ call.arg.val[2][2] > RowCount(call.arg.val[1])
    /\ call.arg.val[1][1] # issued.arg.val[1][1]
    /\ call.arg.val[1][2] # issued.arg.val[1][2]
    /\ call.result.value.val = issued.arg.val[1]

(***************************************************************************)
(* Properties of the name and ssn shift (SpecSplit).                       *)
(***************************************************************************)
\* C16: for every table with the columns name and ssn and every key of two
\* elements, deanonimizacja with the same key list, called on the result
\* of anonimizacja, restores the name and the ssn of every row, for any
\* row count and any key values, and for names without a space.
SplitRoundTrip ==
    call.op = "current_deanonimizacja"
        => /\ call.result.exc = ""
           /\ call.result.value.val.name = issued.arg.val[1].name
           /\ call.result.value.val.ssn = issued.arg.val[1].ssn

(***************************************************************************)
(* Properties of the text transformation (SpecDeterministic).              *)
(***************************************************************************)
\* C17: for every key, field name and text of a column configured as text,
\* deanonymize restores the text that anonymize transformed, also when the
\* text has characters outside the readable range 33..126, such as spaces.
TextRoundTrip ==
    (call.op = "deanonymize_cell" /\ issued.arg.val[1].type = "str")
        => call.result.value = issued.arg.val[1]

(***************************************************************************)
(* The first transformed byte and the positions of the inverse transform   *)
(* (Spec).                                                                 *)
(***************************************************************************)
\* the byte sequence anonymize hands to _bytes_to_base36 for data on inst
TransformedBytes(inst, data) ==
    TransformBytes(inst, <<VersionByte>> \o TypedBytes(data))

\* C18: for every key pair and every value, the transformed byte sequence
\* that anonymize hands to the base-36 encoder starts with a non-zero byte,
\* so deanonymize of the token on an instance with the same keys recovers
\* a byte sequence of the same length and inverse-transforms every byte at
\* the position at which it was transformed: what it obtains is the version
\* byte followed by the bytes of the typed string.
LeadingByteNonZero ==
    (DeanonymizedIssued /\ SameKeys(call.inst)) =>
        /\ TransformedBytes(self[call.inst], issued.arg)[1] # 0
        /\ call.result.payload = <<VersionByte>> \o TypedBytes(issued.arg)

(***************************************************************************)
(* The base-36 codec (SpecCodec).                                          *)
(***************************************************************************)
\* the value of a base-36 digit character
DigitValue36(cp) == IF cp <= 57 THEN cp - 48 ELSE cp - 55

\* the integer that text denotes in base 36, most significant digit first
RECURSIVE ValueOf36(_, _)
ValueOf36(text, n) ==
    IF n = 0 THEN <<>> ELSE muladd36(ValueOf36(text, n - 1), DigitValue36(text[n]))

\* the string contains only zero digits
AllZero(data) == \A i \in 1..Len(data) : data[i] = 0

\* C19: for every byte sequence b, _bytes_to_base36(b) is made of the digits
\* 0-9A-Z, has no leading "0" unless it is exactly "0", denotes in base 36
\* the integer that b is as a big-endian unsigned number, is "0" for the
\* empty and the all-zero sequence, and _base36_to_bytes of it is b without
\* its leading zero bytes.
Base36Codec ==
    call.op = "_base36_to_bytes" =>
        LET b == issued.arg.val
            base36_str == issued.result.value.val
        IN  /\ call.arg = issued.result.value
            /\ Len(base36_str) >= 1
            /\ \A i \in 1..Len(base36_str) : base36_str[i] \in Base36Characters
            /\ base36_str[1] = 48 => Len(base36_str) = 1
            /\ ValueOf36(base36_str, Len(base36_str)) = StripLeadingZeros(b)
            /\ AllZero(b) => base36_str = <<48>>
            /\ call.result.exc = ""
            /\ call.result.value = PyBytes(StripLeadingZeros(b))

\* a sequence with a leading zero byte and a non-zero byte after it has
\* been encoded to more than one digit and decoded again
Base36CodecWitness ==
    /\ call.op = "_base36_to_bytes"
    /\ Len(issued.arg.val) = MaxCodecLen
    /\ issued.arg.val[1] = 0
    /\ issued.arg.val[2] = 255
    /\ Len(issued.result.value.val) >= 2
    /\ call.result.value.val = Tail(issued.arg.val)

(***************************************************************************)
(* Keystream generation (SpecSequence).                                    *)
(***************************************************************************)
\* d(n) of the digest chain: d(1) = H(key ++ key), d(n+1) = H(d(n) ++ key)
RECURSIVE ChainDigest(_, _, _)
ChainDigest(key, hash_func, n) ==
    IF n = 1 THEN digest(hash_func, key \o key)
    ELSE digest(hash_func, ChainDigest(key, hash_func, n - 1) \o key)

\* byte i (from 1) of d(1) ++ d(2) ++ ...
ChainByte(key, hash_func, i) ==
    LET d == digest_size(hash_func)
    IN  ChainDigest(key, hash_func, ((i - 1) \div d) + 1)[((i - 1) % d) + 1]

\* ceil(length / d)
CeilDiv(length, d) == (length + d - 1) \div d

\* C20: for every key, hash function H with digest size d and length
\* L >= 0, a call of _generate_sequence never invokes H more than ceil(L/d)
\* times, leaves its loop exactly when it has invoked it ceil(L/d) times,
\* and returns exactly L bytes, the first L bytes of d1 ++ d2 ++ ... with
\* d1 = H(key ++ key) and d(i+1) = H(d(i) ++ key); two calls with the same
\* key, H and length return identical sequences.
KeystreamGeneration ==
    /\ \A t \in Threads :
          frames[t].op = "_generate_sequence" =>
             LET f == frames[t]
                 d == digest_size(f.hash_func)
             IN  /\ f.hashes <= CeilDiv(f.length, d)
                 /\ Len(f.result) = f.hashes * d
                 /\ f.hashes = CeilDiv(f.length, d) <=> ~(Len(f.result) < f.length)
    /\ call.op = "_generate_sequence" =>
          LET a == call.arg.val
              sequence == call.result.value.val
          IN  /\ call.result.hashes = CeilDiv(a.length, digest_size(a.hash_func))
              /\ Len(sequence) = a.length
              /\ \A i \in 1..a.length :
                    sequence[i] = ChainByte(a.key, a.hash_func, i)
              /\ (issued.live /\ issued.arg = call.arg) =>
                    issued.result.value = call.result.value

\* a call for a length that is no multiple of the digest size and needs
\* more than one digest has returned, after an earlier call with the same
\* arguments
KeystreamGenerationWitness ==
    /\ call.op = "_generate_sequence"
    /\ call.arg.val.hash_func = "sha256"
    /\ call.arg.val.length = Sha256DigestSize + 1
    /\ call.result.hashes = 2
    /\ issued.live
    /\ issued.arg = call.arg

(***************************************************************************)
(* Periodicity of the forward byte transformations (SpecPeriod).           *)
(***************************************************************************)
\* C21: for every byte b, position p and key pair, the three-layer
\* transform followed by the positional scramble gives at position p + 2048
\* (the length of the key sequences) the byte it gives at position p.
TransformPeriod ==
    [][(call.op \in {"transform_byte", "transform_byte_later"}
          /\ call'.op = "transform_byte_later")
          => /\ call'.arg.val[1] = call.arg.val[1]
             /\ call'.arg.val[2] = call.arg.val[2] + DefaultLength
             /\ call'.result.value = call.result.value]_vars

\* a byte transformed at an odd position with a rotation has been
\* transformed again two lengths of the key sequences further on, and the
\* transformation changes it
TransformPeriodWitness ==
    /\ call.op = "transform_byte_later"
    /\ call.arg.val[2] = 3 + 2 * DefaultLength
    /\ call.arg.val[1] = 255
    /\ call.result.value.val[1] # 255

(***************************************************************************)
(* No call of the three specifications hands float() or Decimal() a text   *)
(* with an exponent, inf or nan, the forms this module does not evaluate.  *)
(***************************************************************************)
Modelled == call.result.exc # "Unmodelled"

====
